---------------------------- MODULE Spec2Model ----------------------------
(***************************************************************************)
(* A model of the web-standards.dev client search widget                   *)
(* (src/src/scripts/modules/search.js): the <search-field> custom element, *)
(* the lazily loaded Pagefind module it shares with the page, the browser  *)
(* event loop that drives it (events, timers, promise reactions) and the   *)
(* markup it renders.                                                      *)
(*                                                                         *)
(* Strings are sequences of one-character strings, so that trim() and      *)
(* escapeHtml() are computed and not assumed.                              *)
(***************************************************************************)
EXTENDS Integers, Sequences, FiniteSets, TLC

(***************************************************************************)
(* Bounds of the model and constants of the program.                       *)
(***************************************************************************)

\* Number of <search-field> elements on the page.
NumWidgets == 2

\* Input events a widget receives in one behaviour.
MaxInputs == 3

\* Input events a widget receives in one behaviour of SpecPage.
PageInputs == 1

\* Granularity of the clock, in milliseconds.
TickMs == 150

\* The delay passed to setTimeout in onInput.
DebounceMs == 300

\* Longest title and excerpt drawn for the rendering of one result.
MaxTextLen == 2

Widgets == 1..NumWidgets

(***************************************************************************)
(* Strings.                                                                *)
(***************************************************************************)

\* String.prototype.trim on a sequence of characters (the only white space
\* of the model is the space).
RECURSIVE TrimStart(_)
TrimStart(s) ==
    IF s # <<>> /\ Head(s) = " " THEN TrimStart(Tail(s)) ELSE s

RECURSIVE TrimEnd(_)
TrimEnd(s) ==
    IF s # <<>> /\ s[Len(s)] = " " THEN TrimEnd(SubSeq(s, 1, Len(s) - 1)) ELSE s

Trim(s) ==
    TrimEnd(TrimStart(s))

\* String.prototype.replace(/ch/g, rep): every occurrence of the character
\* ch of s replaced by the string rep, left to right.
RECURSIVE ReplaceAll(_, _, _)
ReplaceAll(s, ch, rep) ==
    IF s = <<>> THEN <<>>
    ELSE (IF Head(s) = ch THEN rep ELSE <<Head(s)>>) \o ReplaceAll(Tail(s), ch, rep)

AmpEntity == <<"&", "a", "m", "p", ";">>
LtEntity == <<"&", "l", "t", ";">>
GtEntity == <<"&", "g", "t", ";">>
QuotEntity == <<"&", "q", "u", "o", "t", ";">>
AposEntity == <<"&", "#", "3", "9", ";">>

\* SearchField.escapeHtml: '' for a falsy value, else the five replacements
\* in the order of the source, the ampersand first.
escapeHtml(value) ==
    IF value = <<>> THEN <<>>
    ELSE ReplaceAll(ReplaceAll(ReplaceAll(ReplaceAll(ReplaceAll(value,
             "&", AmpEntity), "<", LtEntity), ">", GtEntity), "\"", QuotEntity),
             "'", AposEntity)

\* The remainder operator of JavaScript: the result has the sign of the
\* dividend (TLA+'s % has the sign of the divisor).
JsRem(a, n) ==
    IF a >= 0 THEN a % n ELSE -((-a) % n)

(***************************************************************************)
(* The index: what pagefind.search(query) and the results' data() yield.   *)
(* An item is the object data() resolves to: url, meta.title (hasTitle is  *)
(* FALSE when meta.title is undefined) and excerpt.                        *)
(***************************************************************************)

Item(url, hasTitle, title, excerpt) ==
    [url |-> url, hasTitle |-> hasTitle, title |-> title, excerpt |-> excerpt]

IndexResults(query) ==
    IF query = <<"a">>
    THEN << Item(<<"/", "1">>, TRUE, <<"a", "<">>, <<"<", "m", ">", "a">>),
            Item(<<"/", "2">>, FALSE, <<>>, <<>>) >>
    ELSE IF query = <<"b">>
    THEN << Item(<<"/", "3">>, TRUE, <<"b", "&">>, <<"b">>) >>
    ELSE << >>

\* The values the user leaves in the input after an input event: nothing,
\* a query with two results, one with one result that is typed with white
\* space after it, and one without results.
InputValues ==
    { << >>, <<"a">>, <<"b", " ">>, <<"c">> }


(***************************************************************************)
(* State.                                                                  *)
(***************************************************************************)

VARIABLES
    sf,                     \* the SearchField instances and their DOM
    focus,                  \* document.activeElement
    globalPagefind,         \* globalThis.pagefind
    pagefindModulePromise,  \* the module-level promise of search.js
    importCount,            \* import('/pagefind/pagefind.js') calls started
    loadWaiters,            \* widgets whose promise is chained on the import
    ensureWaiters,          \* ensurePagefindSearch calls suspended at await
    microtasks,             \* the promise reactions queued to run
    timers,                 \* the active timers of setTimeout
    timerCounter,           \* the last timer handle handed out
    calls,                  \* performSearch calls suspended at an await
    hist,                   \* what has happened to each widget so far
    renderIn,               \* the result handed to the rendering of one item
    renderOut,              \* the markup pieces rendered for it
    buildIn,                \* the entries, page size and run mode of a build
    buildOut,               \* the collections the build has produced
    linksIn,                \* the arguments of a paginationItems call
    linksOut,               \* the items it returned
    disk,                   \* the directories and files below the project
    run,                    \* the last run of an authoring script
    msgIn,                  \* the post data handed to createMessage
    msgOut,                 \* the message composed and its counted length
    crossIn,                \* arguments, environment and post of a cross-post
    crossRun,               \* how far that run of crosspost.js has come
    trackIn,                \* the cache and the platforms of a tracking run
    trackRun                \* how far that run of the tracking script has come

widgetVars == << sf, focus, globalPagefind, pagefindModulePromise, importCount,
                 loadWaiters, ensureWaiters, microtasks, timers, timerCounter,
                 calls, hist >>

renderVars == << renderIn, renderOut >>

buildVars == << buildIn, buildOut, linksIn, linksOut >>

scriptVars == << disk, run >>

socialVars == << msgIn, msgOut, crossIn, crossRun, trackIn, trackRun >>

vars == << sf, focus, globalPagefind, pagefindModulePromise, importCount,
           loadWaiters, ensureWaiters, microtasks, timers, timerCounter,
           calls, hist, renderIn, renderOut, buildIn, buildOut, linksIn,
           linksOut, disk, run, msgIn, msgOut, crossIn, crossRun, trackIn,
           trackRun >>

\* The element that has focus: the body, a widget's input or a link of a
\* widget's result list.
Body == [w |-> 0, el |-> "body"]
InputOf(w) == [w |-> w, el |-> "input"]
LinkOf(w) == [w |-> w, el |-> "link"]

\* innerHTML of the result list.
EmptyContent == [kind |-> "empty", items |-> << >>]
NoMatchesContent == [kind |-> "nomatch", items |-> << >>]

\* The listeners connectedCallback attaches: focus, input and keydown on
\* the input, pointerdown on the document, keydown on the result list and
\* click on the clear button.
ListenerNames ==
    {"focus", "input", "keydown", "pointerdown", "resultsKeydown", "click"}

\* The constructor of SearchField followed by connectedCallback on the
\* markup ensureDynamicElements writes: an empty input, a hidden result
\* list and a hidden clear button.
NewSearchField ==
    [ initialized |-> TRUE,
      isConnected |-> TRUE,
      listeners |-> [l \in ListenerNames |-> 1],
      value |-> << >>,
      placeholderOffline |-> FALSE,
      hidden |-> TRUE,
      ariaExpanded |-> FALSE,
      ariaActivedescendant |-> 0,
      innerHTML |-> EmptyContent,
      clearHidden |-> TRUE,
      resultEntries |-> << >>,
      activeIndex |-> -1,
      resultIdCounter |-> 0,
      debounceTimer |-> 0,
      pagefindSearch |-> FALSE,
      pagefindSearchPromise |-> "null" ]

NewHistory ==
    [ inputs |-> 0,          \* input events handled
      lastEvent |-> << >>,   \* event.target.value of the last input event
      sinceInput |-> 0,      \* ms since that event, up to DebounceMs
      gap |-> DebounceMs,    \* ms between that event and the one before it
      called |-> << >>,      \* the queries timer callbacks ran with since
      searched |-> 0,        \* performSearch calls with a query so far
      rendered |-> 0,        \* the call whose results were rendered last
      cleared |-> FALSE,     \* clear clicked and no input event since
      closed |-> FALSE ]     \* SpecClose: the open panel was closed by Escape
                             \* in the input or by a pointerdown outside, and
                             \* no input or focus event has followed

\* The whole state as one record, so that a handler is a function from the
\* state before it to the state after it and handlers compose as their
\* calls do in the source.
World ==
    [ sf |-> sf, focus |-> focus, globalPagefind |-> globalPagefind,
      pagefindModulePromise |-> pagefindModulePromise,
      importCount |-> importCount, loadWaiters |-> loadWaiters,
      ensureWaiters |-> ensureWaiters, microtasks |-> microtasks,
      timers |-> timers, timerCounter |-> timerCounter, calls |-> calls,
      hist |-> hist ]

\* The state W0 becomes the next state.  (W0 is bound once, so that the
\* handlers that yield it are evaluated once.)
Commit(W0) ==
    \E W \in {W0} :
        /\ sf' = W.sf
        /\ focus' = W.focus
        /\ globalPagefind' = W.globalPagefind
        /\ pagefindModulePromise' = W.pagefindModulePromise
        /\ importCount' = W.importCount
        /\ loadWaiters' = W.loadWaiters
        /\ ensureWaiters' = W.ensureWaiters
        /\ microtasks' = W.microtasks
        /\ timers' = W.timers
        /\ timerCounter' = W.timerCounter
        /\ calls' = W.calls
        /\ hist' = W.hist
        /\ UNCHANGED << renderVars, buildVars, scriptVars,
                    socialVars >>

(***************************************************************************)
(* The methods of SearchField that only touch the widget and the DOM.      *)
(***************************************************************************)

\* updateClearButtonVisibility
UpdateClearButtonVisibility(W, w) ==
    LET hasValue == Trim(W.sf[w].value) # << >>
        resultsVisible == ~W.sf[w].hidden
    IN  [W EXCEPT !.sf[w].clearHidden = ~(hasValue \/ resultsVisible)]

\* openResults
OpenResults(W, w) ==
    UpdateClearButtonVisibility(
        [W EXCEPT !.sf[w].hidden = FALSE, !.sf[w].ariaExpanded = TRUE], w)

\* closeResults.  A focused link of the list stops being rendered when the
\* list is hidden, and the browser then moves focus to the body.
CloseResults(W, w) ==
    UpdateClearButtonVisibility(
        [W EXCEPT !.sf[w].hidden = TRUE,
                  !.sf[w].ariaExpanded = FALSE,
                  !.sf[w].ariaActivedescendant = 0,
                  !.sf[w].resultEntries = << >>,
                  !.sf[w].activeIndex = -1,
                  !.focus = IF W.focus = LinkOf(w) THEN Body ELSE W.focus], w)

\* A bug of setActive: the index is used as given, without the wrap-around.
BoundedIndexUnwrapped(nextIndex, length) ==
    nextIndex

\* boundedIndex of setActive
BoundedIndex(nextIndex, length) ==
    JsRem(JsRem(nextIndex, length) + length, length)

\* setActive.  activeIndex is assigned before resultEntries[activeIndex] is
\* destructured; were the index outside the list, the destructuring of
\* undefined would throw and leave the rest of the method undone.
SetActive(W, w, nextIndex) ==
    IF Len(W.sf[w].resultEntries) = 0 THEN W
    ELSE LET boundedIndex == BoundedIndex(nextIndex, Len(W.sf[w].resultEntries))
             W1 == [W EXCEPT !.sf[w].activeIndex = boundedIndex]
         IN  IF boundedIndex + 1 \in DOMAIN W.sf[w].resultEntries
             THEN [W1 EXCEPT !.sf[w].ariaActivedescendant =
                                 W.sf[w].resultEntries[boundedIndex + 1],
                             !.focus = LinkOf(w)]
             ELSE W1

\* clearResultsContent.  Emptying innerHTML removes a focused link from the
\* document, and focus falls back to the body.
ClearResultsContent(W, w) ==
    [W EXCEPT !.sf[w].innerHTML = EmptyContent,
              !.sf[w].resultEntries = << >>,
              !.sf[w].activeIndex = -1,
              !.focus = IF W.focus = LinkOf(w) THEN Body ELSE W.focus]

\* A bug of renderResults: the title is written into the markup as it is.
RenderedTitleRaw(item) ==
    IF item.hasTitle THEN item.title ELSE item.url

\* The text renderResults puts between <a> and </a>.
RenderedTitle(item) ==
    escapeHtml(IF item.hasTitle THEN item.title ELSE item.url)

\* The text renderResults puts after </a>.
RenderedParagraph(item) ==
    IF item.excerpt # << >>
    THEN <<"<", "p", ">">> \o item.excerpt \o <<"<", "/", "p", ">">>
    ELSE << >>

\* One <li> of the template of renderResults: the pieces it interpolates.
RenderItem(item, id) ==
    [ id |-> id,
      href |-> item.url,
      title |-> RenderedTitle(item),
      paragraph |-> RenderedParagraph(item) ]

\* renderResults
RenderResults(W, w, items) ==
    LET W1 == ClearResultsContent(W, w)
        first == W1.sf[w].resultIdCounter
    IN  IF Len(items) = 0
        THEN OpenResults([W1 EXCEPT !.sf[w].innerHTML = NoMatchesContent], w)
        ELSE OpenResults(
               [W1 EXCEPT
                  !.sf[w].resultIdCounter = first + Len(items),
                  !.sf[w].innerHTML =
                      [kind |-> "list",
                       items |-> [k \in 1..Len(items) |->
                                     RenderItem(items[k], first + k)]],
                  !.sf[w].resultEntries =
                      [k \in 1..Len(items) |-> first + k]], w)


(***************************************************************************)
(* Loading the Pagefind module.                                            *)
(***************************************************************************)

\* The promise reactions of the model.  "settle" is the then-callback of
\* ensurePagefindSearch (resolvePagefindSearch on what loadPagefind
\* yielded) for widget w; "ensure" is the rest of an ensurePagefindSearch
\* call after its await, for the performSearch call numbered caller or,
\* with caller 0, for prefetchPagefind.
SettleTask(w) == [kind |-> "settle", w |-> w, caller |-> 0, ok |-> TRUE]
EnsureTask(w, caller, ok) == [kind |-> "ensure", w |-> w, caller |-> caller, ok |-> ok]

\* The promise of the performSearch call numbered caller is rejected and
\* nothing handles it (the timer callback of onInput drops the promise):
\* once the reactions queued before it have run, the browser reports the
\* rejection as unhandled.
UnhandledTask(w, caller) ==
    [kind |-> "unhandled", w |-> w, caller |-> caller, ok |-> FALSE]

\* A bug of loadPagefind: the module-level promise is not consulted, and
\* the import is started as long as the global handle is unset.
ImportNeededIgnoringPromise(W) ==
    TRUE

\* A bug of loadPagefind: a module promise that was rejected is replaced
\* by a new import.
ImportNeededAfterRejection(W) ==
    W.pagefindModulePromise \in {"unset", "rejected"}

\* The second test of loadPagefind, reached when globalThis.pagefind is
\* unset: is there no module promise yet?
ImportNeeded(W) ==
    W.pagefindModulePromise = "unset"

\* loadPagefind, called by widget w to build its pagefindSearchPromise.
\* With the handle cached, or the module promise settled, the widget's
\* then-callback is queued at once; with the import in flight the widget
\* waits for it.
LoadPagefind(W, w) ==
    IF W.globalPagefind # "unset"
    THEN [W EXCEPT !.microtasks = Append(@, SettleTask(w))]
    ELSE LET W1 == IF ImportNeeded(W)
                   THEN [W EXCEPT !.pagefindModulePromise = "pending",
                                  !.importCount = @ + 1]
                   ELSE W
         IN  IF W1.pagefindModulePromise = "pending"
             THEN [W1 EXCEPT !.loadWaiters = Append(@, w)]
             ELSE [W1 EXCEPT !.microtasks = Append(@, SettleTask(w))]

\* resolvePagefindSearch: does the module expose a search function?
ResolvePagefindSearch(pagefindModule) ==
    pagefindModule = "ok"

\* ensurePagefindSearch up to its await.
EnsurePagefindSearch(W, w, caller) ==
    IF W.sf[w].pagefindSearch
    THEN [W EXCEPT !.microtasks = Append(@, EnsureTask(w, caller, TRUE))]
    ELSE LET W1 == IF W.sf[w].pagefindSearchPromise = "null"
                   THEN LoadPagefind(
                          [W EXCEPT !.sf[w].pagefindSearchPromise = "pending"], w)
                   ELSE W
             state == W1.sf[w].pagefindSearchPromise
         IN  IF state = "pending"
             THEN [W1 EXCEPT !.ensureWaiters =
                                 Append(@, [w |-> w, caller |-> caller])]
             ELSE [W1 EXCEPT !.microtasks =
                                 Append(@, EnsureTask(w, caller, state = "fulfilled"))]

\* prefetchPagefind
PrefetchPagefind(W, w) ==
    IF W.sf[w].pagefindSearch \/ W.sf[w].pagefindSearchPromise # "null"
    THEN W
    ELSE EnsurePagefindSearch(W, w, 0)

\* The then-callback of widget w's pagefindSearchPromise runs: the promise
\* is fulfilled with the search function or rejected (the import was
\* rejected, or resolvePagefindSearch threw), and the calls awaiting it are
\* queued in the order they arrived.
RunSettle(W, w) ==
    LET ok == W.pagefindModulePromise # "rejected"
              /\ ResolvePagefindSearch(W.globalPagefind)
        mine == SelectSeq(W.ensureWaiters, LAMBDA e : e.w = w)
        others == SelectSeq(W.ensureWaiters, LAMBDA e : e.w # w)
    IN  [W EXCEPT !.sf[w].pagefindSearchPromise =
                      IF ok THEN "fulfilled" ELSE "rejected",
                  !.ensureWaiters = others,
                  !.microtasks = @ \o [k \in 1..Len(mine) |->
                                          EnsureTask(w, mine[k].caller, ok)]]

\* A bug of ensurePagefindSearch: the placeholder is left as it was.
OfflinePlaceholderSkipped(W, w) ==
    W

\* The catch block of ensurePagefindSearch, line 345: the placeholder of
\* the input becomes 'Search is offline right now'.
OfflinePlaceholder(W, w) ==
    [W EXCEPT !.sf[w].placeholderOffline = TRUE]

\* ensurePagefindSearch after its await, and, for a performSearch call, the
\* rest of performSearch up to its next await: on success the widget keeps
\* the search function and the call dispatches search(query); on failure
\* the placeholder is set, the promise forgotten and the error thrown,
\* which performSearch catches (it returns) and prefetchPagefind swallows.
RunEnsure(W, w, caller, ok) ==
    LET mine == {c \in W.calls : c.w = w /\ c.seq = caller /\ c.pc = "ensure"}
    IN  IF ok
        THEN [W EXCEPT !.sf[w].pagefindSearch = TRUE,
                       !.calls = (@ \ mine) \cup
                                 {[c EXCEPT !.pc = "search"] : c \in mine}]
        ELSE [OfflinePlaceholder(W, w) EXCEPT
                       !.sf[w].pagefindSearchPromise = "null",
                       !.calls = @ \ mine]

\* An await of performSearch outside of its try block (search(query), line
\* 198, or Promise.all, line 204) throws in call c: the call ends and its
\* promise is rejected with nothing to handle it.
RejectPerformSearch(W, c) ==
    [W EXCEPT !.calls = @ \ {c},
              !.microtasks = Append(@, UnhandledTask(c.w, c.seq))]

(***************************************************************************)
(* The event handlers of SearchField.                                      *)
(***************************************************************************)

\* onFocus
OnFocus(W, w) ==
    LET W1 == PrefetchPagefind(W, w)
    IN  IF W1.sf[w].value # << >> THEN OpenResults(W1, w) ELSE W1

\* Focus moves to the input of w (the user's doing, or input.focus()): the
\* focus event is fired only when the input did not have focus.
FocusInput(W, w) ==
    IF W.focus = InputOf(w) THEN W
    ELSE OnFocus([W EXCEPT !.focus = InputOf(w)], w)

\* A bug of onInput: the pending timer is not cleared.
CancelDebounceSkipped(W, w) ==
    W

\* onInput, lines 79-81: clearTimeout of the stored handle.
CancelDebounce(W, w) ==
    IF W.sf[w].debounceTimer # 0
    THEN [W EXCEPT !.timers = {t \in @ : t.id # W.sf[w].debounceTimer}]
    ELSE W

\* onInput for an input event that left v in the input.
OnInput(W, w, v) ==
    LET value == Trim(v)
        W1 == UpdateClearButtonVisibility(CancelDebounce(W, w), w)
        id == W1.timerCounter + 1
    IN  [W1 EXCEPT !.timerCounter = id,
                   !.sf[w].debounceTimer = id,
                   !.timers = @ \cup {[id |-> id, w |-> w, value |-> value,
                                       remaining |-> DebounceMs]}]

\* performSearch up to its first await.
PerformSearch(W, w, query) ==
    IF query = << >> THEN CloseResults(W, w)
    ELSE LET seq == W.hist[w].searched + 1
             ready == W.sf[w].pagefindSearch
             W1 == [W EXCEPT !.hist[w].searched = seq,
                             !.calls = @ \cup
                                {[w |-> w, seq |-> seq, query |-> query,
                                  pc |-> IF ready THEN "search" ELSE "ensure"]}]
         IN  IF ready THEN W1 ELSE EnsurePagefindSearch(W1, w, seq)

\* A bug of onInputKeydown: ArrowUp on the first entry stays there.
InputArrowUpTargetNoWrap(activeIndex, length) ==
    IF activeIndex > 0 THEN activeIndex - 1 ELSE 0

\* The index onInputKeydown passes to setActive for ArrowUp.
InputArrowUpTarget(activeIndex, length) ==
    IF activeIndex > 0 THEN activeIndex - 1 ELSE length - 1

\* The index onInputKeydown passes to setActive for ArrowDown:
\* activeIndex + 1 || 0.
InputArrowDownTarget(activeIndex) ==
    IF activeIndex + 1 # 0 THEN activeIndex + 1 ELSE 0

Keys == {"Escape", "ArrowDown", "ArrowUp"}

\* onInputKeydown
OnInputKeydown(W, w, key) ==
    IF key = "Escape" THEN CloseResults(W, w)
    ELSE IF Len(W.sf[w].resultEntries) = 0 THEN W
    ELSE IF key = "ArrowDown"
         THEN SetActive(OpenResults(W, w), w,
                        InputArrowDownTarget(W.sf[w].activeIndex))
    ELSE IF key = "ArrowUp"
         THEN SetActive(OpenResults(W, w), w,
                        InputArrowUpTarget(W.sf[w].activeIndex,
                                           Len(W.sf[w].resultEntries)))
    ELSE W

\* onResultsKeydown
OnResultsKeydown(W, w, key) ==
    IF Len(W.sf[w].resultEntries) = 0 THEN W
    ELSE IF key = "ArrowDown" THEN SetActive(W, w, W.sf[w].activeIndex + 1)
    ELSE IF key = "ArrowUp" THEN SetActive(W, w, W.sf[w].activeIndex - 1)
    ELSE IF key = "Escape" THEN FocusInput(CloseResults(W, w), w)
    ELSE W

\* onPointerDown of widget w, for a pointerdown inside or outside of it.
OnPointerDown(W, w, inside) ==
    IF inside THEN W ELSE CloseResults(W, w)

\* onClearClick
OnClearClick(W, w) ==
    LET W1 == [W EXCEPT !.sf[w].value = << >>]
        W2 == CloseResults(ClearResultsContent(W1, w), w)
    IN  FocusInput(UpdateClearButtonVisibility(W2, w), w)

\* The pointerdown listeners of all the widgets, for a pointerdown whose
\* target is inside widget target (0: inside none of them).
RECURSIVE PointerDownFrom(_, _, _)
PointerDownFrom(W, w, target) ==
    IF w > NumWidgets THEN W
    ELSE PointerDownFrom(OnPointerDown(W, w, w = target), w + 1, target)


(***************************************************************************)
(* The steps of the page: one per task of the event loop.  A task is taken *)
(* only when the promise reactions of the previous one have all run.       *)
(***************************************************************************)

Quiet == microtasks = << >>

NoRender == [kind |-> "none"]

\* Nothing is built and no filter is called.
NotBuilt == [kind |-> "none"]

NoBuild ==
    /\ buildIn = [entries |-> << >>, pageSize |-> 1, isDev |-> FALSE]
    /\ buildOut = NotBuilt
    /\ linksIn = [pageNumber |-> 0, total |-> 0, maxVisible |-> 0]
    /\ linksOut = << >>

\* No script is run yet.
NotRun ==
    [ n |-> 0, tool |-> "none", dateInput |-> << >>, slug |-> << >>,
      denied |-> FALSE, exit |-> 0, error |-> "", sourcePath |-> << >> ]

\* No script is run, on an empty disk.
NoScript ==
    /\ disk = << >>
    /\ run = NotRun

\* No message is composed and neither social script is run.
NotStarted == [pc |-> "none"]

NoSocial ==
    /\ msgIn = NotStarted
    /\ msgOut = NotStarted
    /\ crossIn = NotStarted
    /\ crossRun = NotStarted
    /\ trackIn = NotStarted
    /\ trackRun = NotStarted

Init ==
    /\ sf = [w \in Widgets |-> NewSearchField]
    /\ focus = Body
    /\ globalPagefind = "unset"
    /\ pagefindModulePromise = "unset"
    /\ importCount = 0
    /\ loadWaiters = << >>
    /\ ensureWaiters = << >>
    /\ microtasks = << >>
    /\ timers = {}
    /\ timerCounter = 0
    /\ calls = {}
    /\ hist = [w \in Widgets |-> NewHistory]
    /\ renderIn = Item(<< >>, FALSE, << >>, << >>)
    /\ renderOut = NoRender
    /\ NoBuild
    /\ NoScript
    /\ NoSocial

\* The user moves focus to the input of w with the keyboard.
UserFocus(w) ==
    /\ Quiet
    /\ focus # InputOf(w)
    /\ Commit(FocusInput(World, w))

\* The user moves focus out of the widgets with the keyboard.
UserBlur ==
    /\ Quiet
    /\ focus # Body
    /\ Commit([World EXCEPT !.focus = Body])

\* The user presses the pointer outside of every widget.
PointerDownOutside ==
    /\ Quiet
    /\ Commit([PointerDownFrom(World, 1, 0) EXCEPT !.focus = Body])

\* The user presses the pointer on the input of w, which takes focus.
PointerDownOnInput(w) ==
    /\ Quiet
    /\ Commit(FocusInput(PointerDownFrom(World, 1, w), w))

\* The input event of an edit that leaves v in the input of w: onInput
\* runs, and the history of the widget records the event.
InputEvent(W, w, v) ==
    LET W1 == OnInput([W EXCEPT !.sf[w].value = v], w, v)
    IN  [W1 EXCEPT !.hist[w].inputs = @ + 1,
                   !.hist[w].lastEvent = v,
                   !.hist[w].gap =
                       IF W.hist[w].inputs = 0 THEN DebounceMs
                       ELSE W.hist[w].sinceInput,
                   !.hist[w].sinceInput = 0,
                   !.hist[w].called = << >>,
                   !.hist[w].cleared = FALSE]

\* The user edits the input of w, leaving v in it: the input event.
UserInput(w, v) ==
    /\ Quiet
    /\ focus = InputOf(w)
    /\ hist[w].inputs < MaxInputs
    /\ v # sf[w].value
    /\ Commit(InputEvent(World, w, v))

\* A key goes down while the input of w has focus.
KeyInInput(w, key) ==
    /\ Quiet
    /\ focus = InputOf(w)
    /\ Commit(OnInputKeydown(World, w, key))

\* A key goes down while a link of the result list of w has focus.
KeyInResults(w, key) ==
    /\ Quiet
    /\ focus = LinkOf(w)
    /\ Commit(OnResultsKeydown(World, w, key))

\* The user clicks the clear button of w.  Browsers differ in whether the
\* click moves focus to the button first (buttonFocus).
ClickClear(w, buttonFocus) ==
    /\ Quiet
    /\ ~sf[w].clearHidden
    /\ LET W1 == PointerDownFrom(World, 1, w)
           W2 == IF buttonFocus
                 THEN [W1 EXCEPT !.focus = [w |-> w, el |-> "button"]]
                 ELSE W1
       IN  Commit([OnClearClick(W2, w) EXCEPT !.hist[w].cleared = TRUE])

\* Time passes.
Tick ==
    /\ Quiet
    /\ \E t \in timers : t.remaining > 0
    /\ timers' = { [t EXCEPT !.remaining =
                        IF @ > TickMs THEN @ - TickMs ELSE 0] : t \in timers }
    /\ hist' = [w \in Widgets |->
                  [hist[w] EXCEPT !.sinceInput =
                      IF hist[w].inputs = 0 THEN 0
                      ELSE IF @ + TickMs < DebounceMs THEN @ + TickMs
                      ELSE DebounceMs]]
    /\ UNCHANGED << sf, focus, globalPagefind, pagefindModulePromise,
                    importCount, loadWaiters, ensureWaiters, microtasks,
                    timerCounter, calls, renderVars, buildVars, scriptVars,
                    socialVars >>

\* A timer of onInput is due and its callback runs: performSearch(value).
TimerFire(t) ==
    /\ Quiet
    /\ t \in timers
    /\ t.remaining = 0
    /\ LET W1 == [World EXCEPT !.timers = @ \ {t},
                               !.hist[t.w].called = Append(@, t.value)]
       IN  Commit(PerformSearch(W1, t.w, t.value))

\* The next promise reaction runs, or the browser reports a rejection
\* that was left unhandled.
RunMicrotask ==
    /\ microtasks # << >>
    /\ LET task == Head(microtasks)
           W1 == [World EXCEPT !.microtasks = Tail(@)]
       IN  IF task.kind = "settle"
           THEN Commit(RunSettle(W1, task.w))
           ELSE IF task.kind = "ensure"
           THEN Commit(RunEnsure(W1, task.w, task.caller, task.ok))
           ELSE Commit(W1)

ImportOutcomes == {"ok", "nosearch", "rejected"}

\* The import of /pagefind/pagefind.js settles: with a module that has a
\* search function, with one that has none, or with a rejection.  On
\* fulfilment the then-callback of loadPagefind stores the module in
\* globalThis.pagefind.
ImportSettles(outcome) ==
    /\ Quiet
    /\ pagefindModulePromise = "pending"
    /\ Commit([World EXCEPT
                 !.pagefindModulePromise =
                     IF outcome = "rejected" THEN "rejected" ELSE "fulfilled",
                 !.globalPagefind =
                     IF outcome = "rejected" THEN @ ELSE outcome,
                 !.loadWaiters = << >>,
                 !.microtasks = [k \in 1..Len(loadWaiters) |->
                                    SettleTask(loadWaiters[k])]])

\* search(query) of call c settles.  Fulfilled without results it renders
\* the placeholder; with results the call goes on to await their data();
\* rejected, the rejection leaves performSearch.
SearchSettles(c, ok) ==
    /\ Quiet
    /\ c \in calls
    /\ c.pc = "search"
    /\ LET W1 == [World EXCEPT !.calls = @ \ {c}]
       IN  IF ~ok THEN Commit(RejectPerformSearch(World, c))
           ELSE IF Len(IndexResults(c.query)) = 0
           THEN Commit([RenderResults(W1, c.w, << >>)
                           EXCEPT !.hist[c.w].rendered = c.seq])
           ELSE Commit([W1 EXCEPT !.calls = @ \cup {[c EXCEPT !.pc = "data"]}])

\* Promise.all over the data() of the results of call c settles: fulfilled,
\* the items are rendered; rejected, the rejection leaves performSearch.
DataSettles(c, ok) ==
    /\ Quiet
    /\ c \in calls
    /\ c.pc = "data"
    /\ LET W1 == [World EXCEPT !.calls = @ \ {c}]
       IN  IF ~ok THEN Commit(RejectPerformSearch(World, c))
           ELSE Commit([RenderResults(W1, c.w, IndexResults(c.query))
                           EXCEPT !.hist[c.w].rendered = c.seq])

\* Spec follows one widget of the page through every event it can
\* receive; the other widgets of the page stay as they were built.
Users == {1}

Next ==
    \/ \E w \in Users : UserFocus(w)
    \/ UserBlur
    \/ PointerDownOutside
    \/ \E w \in Users : PointerDownOnInput(w)
    \/ \E w \in Users, v \in InputValues : UserInput(w, v)
    \/ \E w \in Users, key \in Keys : KeyInInput(w, key)
    \/ \E w \in Users, key \in Keys : KeyInResults(w, key)
    \/ \E w \in Users, buttonFocus \in BOOLEAN : ClickClear(w, buttonFocus)
    \/ Tick
    \/ \E t \in timers : TimerFire(t)
    \/ RunMicrotask
    \/ \E outcome \in ImportOutcomes : ImportSettles(outcome)
    \/ \E c \in calls, ok \in BOOLEAN : SearchSettles(c, ok)
    \/ \E c \in calls, ok \in BOOLEAN : DataSettles(c, ok)

Spec == Init /\ [][Next]_vars

(***************************************************************************)
(* SpecPage follows every widget of the page through the events that load  *)
(* the Pagefind module and use it: focus and queries.                      *)
(***************************************************************************)

\* The user types the query "a" into the input of w.
PageInput(w) ==
    /\ hist[w].inputs < PageInputs
    /\ UserInput(w, <<"a">>)

NextPage ==
    \/ \E w \in Widgets : UserFocus(w)
    \/ UserBlur
    \/ \E w \in Widgets : PageInput(w)
    \/ Tick
    \/ \E t \in timers : TimerFire(t)
    \/ RunMicrotask
    \/ \E outcome \in ImportOutcomes : ImportSettles(outcome)
    \/ \E c \in calls, ok \in BOOLEAN : SearchSettles(c, ok)
    \/ \E c \in calls, ok \in BOOLEAN : DataSettles(c, ok)

SpecPage == Init /\ [][NextPage]_vars

(***************************************************************************)
(* SpecLifecycle follows one widget from its construction through being    *)
(* inserted into and removed from the document, with the focus and input   *)
(* events of the user in between.  sf[w].listeners counts, for each        *)
(* listener of connectedCallback, how often it is registered.              *)
(***************************************************************************)

\* The element after the constructor, before it is connected.
Constructed ==
    [NewSearchField EXCEPT !.initialized = FALSE,
                           !.isConnected = FALSE,
                           !.listeners = [l \in ListenerNames |-> 0]]

\* addEventListener with a listener that is registered count times: the
\* DOM keeps one registration per type and callback.
AddEventListener(count) ==
    IF count = 0 THEN 1 ELSE count

\* removeEventListener
RemoveEventListener(count) ==
    0

\* connectedCallback of an element with an input: lines 43 and 48 do not
\* return, ensureDynamicElements has written the list and the button.
ConnectedCallback(W, w) ==
    IF W.sf[w].initialized THEN W
    ELSE UpdateClearButtonVisibility(
             [W EXCEPT !.sf[w].initialized = TRUE,
                       !.sf[w].listeners =
                           [l \in ListenerNames |-> AddEventListener(@[l])]],
             w)

\* disconnectedCallback
DisconnectedCallback(W, w) ==
    [W EXCEPT !.sf[w].listeners =
                  [l \in ListenerNames |-> RemoveEventListener(@[l])]]

InitLifecycle ==
    /\ sf = [w \in Widgets |-> Constructed]
    /\ focus = Body
    /\ globalPagefind = "unset"
    /\ pagefindModulePromise = "unset"
    /\ importCount = 0
    /\ loadWaiters = << >>
    /\ ensureWaiters = << >>
    /\ microtasks = << >>
    /\ timers = {}
    /\ timerCounter = 0
    /\ calls = {}
    /\ hist = [w \in Widgets |-> NewHistory]
    /\ renderIn = Item(<< >>, FALSE, << >>, << >>)
    /\ renderOut = NoRender
    /\ NoBuild
    /\ NoScript
    /\ NoSocial

\* The element w is inserted into the document.
Connect(w) ==
    /\ Quiet
    /\ ~sf[w].isConnected
    /\ Commit(ConnectedCallback([World EXCEPT !.sf[w].isConnected = TRUE], w))

\* The element w is removed from the document; focus inside it is lost.
Disconnect(w) ==
    /\ Quiet
    /\ sf[w].isConnected
    /\ Commit(DisconnectedCallback(
                 [World EXCEPT !.sf[w].isConnected = FALSE,
                               !.focus = IF @.w = w THEN Body ELSE @], w))

\* The user moves focus to the input of the connected element w: onFocus
\* runs when it is registered.
LifecycleFocus(w) ==
    /\ Quiet
    /\ sf[w].isConnected
    /\ focus # InputOf(w)
    /\ IF sf[w].listeners["focus"] > 0
       THEN Commit(FocusInput(World, w))
       ELSE Commit([World EXCEPT !.focus = InputOf(w)])

\* The user edits the input of the connected element w, leaving v in it:
\* onInput runs when it is registered.
LifecycleInput(w, v) ==
    /\ Quiet
    /\ sf[w].isConnected
    /\ focus = InputOf(w)
    /\ hist[w].inputs < MaxInputs
    /\ v # sf[w].value
    /\ IF sf[w].listeners["input"] > 0
       THEN Commit(InputEvent(World, w, v))
       ELSE Commit([World EXCEPT !.sf[w].value = v,
                                 !.hist[w].inputs = @ + 1])

NextLifecycle ==
    \/ \E w \in Users : Connect(w)
    \/ \E w \in Users : Disconnect(w)
    \/ \E w \in Users : LifecycleFocus(w)
    \/ \E w \in Users, v \in InputValues : LifecycleInput(w, v)
    \/ Tick
    \/ \E t \in timers : TimerFire(t)
    \/ RunMicrotask
    \/ \E outcome \in ImportOutcomes : ImportSettles(outcome)
    \/ \E c \in calls, ok \in BOOLEAN : SearchSettles(c, ok)
    \/ \E c \in calls, ok \in BOOLEAN : DataSettles(c, ok)

SpecLifecycle == InitLifecycle /\ [][NextLifecycle]_vars

(***************************************************************************)
(* SpecClose follows one widget through the events that open and close its *)
(* panel, and records in hist[w].closed that the open panel was closed by  *)
(* Escape in the input or by a pointerdown outside of the widget and that  *)
(* no input or focus event of the input has followed.                      *)
(***************************************************************************)

\* The world W after a close of the panel of w that was visible in V.
Closed(W, V, w) ==
    IF V.sf[w].hidden THEN W ELSE [W EXCEPT !.hist[w].closed = TRUE]

\* The world W after an input or focus event of the input of w.
Reopened(W, w) ==
    [W EXCEPT !.hist[w].closed = FALSE]

\* The user moves focus to the input of w: the focus event.
CloseFocus(w) ==
    /\ Quiet
    /\ focus # InputOf(w)
    /\ Commit(Reopened(FocusInput(World, w), w))

\* The user edits the input of w: the input event.
CloseInput(w, v) ==
    /\ Quiet
    /\ focus = InputOf(w)
    /\ hist[w].inputs < MaxInputs
    /\ v # sf[w].value
    /\ Commit(Reopened(InputEvent(World, w, v), w))

\* Escape goes down while the input of w has focus.
EscapeInInput(w) ==
    /\ Quiet
    /\ focus = InputOf(w)
    /\ Commit(Closed(OnInputKeydown(World, w, "Escape"), World, w))

\* The user presses the pointer outside of every widget.
CloseOutside ==
    /\ Quiet
    /\ \E w \in Users :
           Commit(Closed([PointerDownFrom(World, 1, 0) EXCEPT !.focus = Body],
                         World, w))

NextClose ==
    \/ \E w \in Users : CloseFocus(w)
    \/ UserBlur
    \/ \E w \in Users, v \in InputValues : CloseInput(w, v)
    \/ \E w \in Users : EscapeInInput(w)
    \/ CloseOutside
    \/ Tick
    \/ \E t \in timers : TimerFire(t)
    \/ RunMicrotask
    \/ \E outcome \in ImportOutcomes : ImportSettles(outcome)
    \/ \E c \in calls, ok \in BOOLEAN : SearchSettles(c, ok)
    \/ \E c \in calls, ok \in BOOLEAN : DataSettles(c, ok)

SpecClose == Init /\ [][NextClose]_vars

(***************************************************************************)
(* SpecRender renders one result, whatever its title and excerpt.          *)
(***************************************************************************)

Chars == {"&", "<", ">", "\"", "'", "a"}

\* The strings over Chars of length n, and of length at most n.
RECURSIVE TextsOfLen(_)
TextsOfLen(n) ==
    IF n = 0 THEN {<< >>}
    ELSE {<<c>> \o t : c \in Chars, t \in TextsOfLen(n - 1)}

Texts == UNION {TextsOfLen(n) : n \in 0..MaxTextLen}

InitRender ==
    /\ sf = [w \in Widgets |-> NewSearchField]
    /\ focus = Body
    /\ globalPagefind = "unset"
    /\ pagefindModulePromise = "unset"
    /\ importCount = 0
    /\ loadWaiters = << >>
    /\ ensureWaiters = << >>
    /\ microtasks = << >>
    /\ timers = {}
    /\ timerCounter = 0
    /\ calls = {}
    /\ hist = [w \in Widgets |-> NewHistory]
    /\ \E hasTitle \in BOOLEAN, title \in Texts, excerpt \in Texts :
           renderIn = Item(<<"/", "&">>, hasTitle,
                           IF hasTitle THEN title ELSE << >>, excerpt)
    /\ renderOut = NoRender
    /\ NoBuild
    /\ NoScript
    /\ NoSocial

\* The callback of items.map in renderResults, on the drawn result.
RenderOne ==
    /\ renderOut = NoRender
    /\ renderOut' = RenderItem(renderIn, 1)
    /\ UNCHANGED << widgetVars, renderIn, buildVars, scriptVars,
                    socialVars >>

NextRender == RenderOne

SpecRender == InitRender /\ [][NextRender]_vars


(***************************************************************************)
(* The collections of a build: news, newsPagination, tagPagination and     *)
(* sitemap.                                                                *)
(***************************************************************************)

MaxEntries == 3
MaxDate == 2
MaxPageSize == 2

Tags == {"t", "u"}

\* The tags an entry may carry in its index.yml: one tag, or two of which
\* the second is the tag the other entries carry.
TagLists == { <<"t">>, <<"u", "t">> }

\* A URL or output path of the site, by the template string that builds it:
\* '/', '/news/', `/news/page/${n}/`, `/tags/${tag}/`,
\* `/tags/${tag}/page/${n}/` and the url of an entry; NoUrl is the url of a
\* page whose permalink is false.
Url(kind, tag, n) == [kind |-> kind, tag |-> tag, n |-> n]
HomeUrl == Url("home", "", 0)
NoUrl == Url("none", "", 0)
EntryUrl(id) == Url("entry", "", id)

\* The time of the build (new Date()), later than the date of any entry.
Now == MaxDate + 1

\* A bug of news.11tydata.js: the run mode is tested the wrong way round.
ExcludeInServeMode(data, isDev) ==
    data.draft /\ isDev

\* eleventyComputed.eleventyExcludeFromCollections of news.11tydata.js
EleventyExcludeFromCollections(data, isDev) ==
    data.draft /\ ~isDev

\* eleventyComputed.permalink of news.11tydata.js, as the url the entry is
\* written to: none for a draft outside of serve mode.
Permalink(data, isDev) ==
    IF data.draft /\ ~isDev THEN NoUrl ELSE EntryUrl(data.id)

\* The collection item Eleventy makes of an entry.
CollectionItem(data, isDev) ==
    [ id |-> data.id,
      date |-> data.date,
      tags |-> data.tags,
      draft |-> data.draft,
      eleventyExcludeFromCollections |->
          EleventyExcludeFromCollections(data, isDev),
      url |-> Permalink(data, isDev) ]

\* Is item a to stay in front of item b?  In the order of Eleventy's
\* collections (by date, then by input path) when it is not younger; under
\* the comparator (a, b) => b.date - a.date when the comparator is not
\* positive.
InFront(a, b, order) ==
    IF order = "collection"
    THEN a.date < b.date \/ (a.date = b.date /\ a.id <= b.id)
    ELSE a.date >= b.date

\* seq, which is in order, with x put behind the items that stay in front
\* of it.
InsertBehind(seq, x, order) ==
    LET k == Cardinality({i \in DOMAIN seq : InFront(seq[i], x, order)})
    IN  SubSeq(seq, 1, k) \o <<x>> \o SubSeq(seq, k + 1, Len(seq))

\* The stable sort of Array.prototype.sort: the first n items of seq in
\* order, the items the order does not tell apart staying as they were.
RECURSIVE StableSort(_, _, _)
StableSort(seq, n, order) ==
    IF n = 0 THEN << >>
    ELSE InsertBehind(StableSort(seq, n - 1, order), seq[n], order)

\* Eleventy adds a template to its collections unless its data say
\* eleventyExcludeFromCollections.
IsInCollections(item) ==
    ~item.eleventyExcludeFromCollections

\* collectionApi.getFilteredByGlob(newsGlob): the items of the entries
\* Eleventy has put into its collections, in the order of its collections.
GetFilteredByGlob(in) ==
    LET items == [k \in DOMAIN in.entries |->
                     CollectionItem(in.entries[k], in.isDev)]
        kept == SelectSeq(items, IsInCollections)
    IN  StableSort(kept, Len(kept), "collection")

\* sort((a, b) => b.date - a.date)
SortByDateDesc(items) ==
    StableSort(items, Len(items), "dateDesc")

\* A bug of the page count: Math.floor in the place of Math.ceil.
TotalPagesFloor(length, pageSize) ==
    length \div pageSize

\* Math.ceil(items.length / pageSize)
TotalPages(length, pageSize) ==
    (length + pageSize - 1) \div pageSize

\* items.slice(pageIndex * pageSize, (pageIndex + 1) * pageSize)
Slice(items, pageIndex, pageSize) ==
    LET start == pageIndex * pageSize
        end == IF (pageIndex + 1) * pageSize < Len(items)
               THEN (pageIndex + 1) * pageSize ELSE Len(items)
    IN  SubSeq(items, start + 1, end)

\* The hrefs of the news listing pages.
NewsHrefs(totalPages) ==
    [k \in 1..totalPages |->
        IF k - 1 = 0 THEN Url("news", "", 0) ELSE Url("newsPage", "", k)]

\* The hrefs of the listing pages of a tag.
TagHrefs(tag, totalPages) ==
    [k \in 1..totalPages |->
        IF k - 1 = 0 THEN Url("tag", tag, 0) ELSE Url("tagPage", tag, k)]

\* The pagination object of a listing page.
Pagination(items, pageIndex, pageSize, hrefs, totalPages) ==
    [ items |-> Slice(items, pageIndex, pageSize),
      pageNumber |-> pageIndex,
      hrefs |-> hrefs,
      pages |-> totalPages ]

\* The collection 'news'.
NewsCollection(in) ==
    GetFilteredByGlob(in)

\* The filter of newsPagination, line 40.
NotExcluded(item) ==
    ~item.eleventyExcludeFromCollections

\* The collection 'newsPagination'.  The permalink of a page is index.html
\* at the place its href names.
NewsPagination(in) ==
    LET items == SortByDateDesc(SelectSeq(GetFilteredByGlob(in), NotExcluded))
        totalPages == TotalPages(Len(items), in.pageSize)
        hrefs == NewsHrefs(totalPages)
    IN  [k \in 1..totalPages |->
            [ tag |-> "",
              permalink |-> hrefs[k],
              pagination |-> Pagination(items, k - 1, in.pageSize,
                                        hrefs, totalPages) ]]

\* The tags of the items, in the order the loop of tagPagination meets them.
RECURSIVE TagOccurrences(_)
TagOccurrences(items) ==
    IF items = << >> THEN << >>
    ELSE Head(items).tags \o TagOccurrences(Tail(items))

\* The keys of a Map filled in the order of seq: each once, where it came
\* first.
RECURSIVE MapKeys(_)
MapKeys(seq) ==
    IF seq = << >> THEN << >>
    ELSE LET front == MapKeys(SubSeq(seq, 1, Len(seq) - 1))
             last == seq[Len(seq)]
         IN  IF \E i \in DOMAIN front : front[i] = last
             THEN front ELSE Append(front, last)

HasTag(item, tag) ==
    \E i \in DOMAIN item.tags : item.tags[i] = tag

\* tagMap.get(tag): the items pushed for the tag.
TagItems(items, tag) ==
    LET Carries(item) == HasTag(item, tag)
    IN  SelectSeq(items, Carries)

\* The pages tagPagination returns for one entry [tag, items] of tagMap.
PagesOfTag(tag, pushed, pageSize) ==
    LET items == SortByDateDesc(pushed)
        totalPages == TotalPages(Len(items), pageSize)
        hrefs == TagHrefs(tag, totalPages)
    IN  [k \in 1..totalPages |->
            [ tag |-> tag,
              permalink |-> hrefs[k],
              pagination |-> Pagination(items, k - 1, pageSize,
                                        hrefs, totalPages) ]]

\* [...tagMap].flatMap(...) over the tags from the n-th on.
RECURSIVE FlatMapTags(_, _, _, _)
FlatMapTags(keys, n, items, pageSize) ==
    IF n > Len(keys) THEN << >>
    ELSE PagesOfTag(keys[n], TagItems(items, keys[n]), pageSize)
             \o FlatMapTags(keys, n + 1, items, pageSize)

\* The collection 'tagPagination'.
TagPagination(in) ==
    LET items == SelectSeq(GetFilteredByGlob(in), NotExcluded)
    IN  FlatMapTags(MapKeys(TagOccurrences(items)), 1, items, in.pageSize)

\* The latest date among the items: the reduce of lines 103-105 and the
\* one that keeps entry.date of a tag.
LatestDate(items) ==
    CHOOSE d \in {items[i].date : i \in DOMAIN items} :
        \A i \in DOMAIN items : items[i].date <= d

\* A record of the sitemap.  The priority is in tenths.
SitemapRecord(url, date, priority, changefreq) ==
    [url |-> url, date |-> date, priority |-> priority, changefreq |-> changefreq]

\* The records the sitemap holds for the listing pages of one tag.
SitemapPagesOfTag(tag, count, date, pageSize) ==
    [k \in 1..TotalPages(count, pageSize) |->
        SitemapRecord(IF k - 1 = 0 THEN Url("tag", tag, 0)
                                   ELSE Url("tagPage", tag, k),
                      date, IF k - 1 = 0 THEN 5 ELSE 3, "weekly")]

\* The loop of lines 144-154 over the tags from the n-th on.
RECURSIVE SitemapTagPages(_, _, _, _)
SitemapTagPages(keys, n, items, pageSize) ==
    IF n > Len(keys) THEN << >>
    ELSE LET tagged == TagItems(items, keys[n])
         IN  SitemapPagesOfTag(keys[n], Len(tagged), LatestDate(tagged), pageSize)
                 \o SitemapTagPages(keys, n + 1, items, pageSize)

\* The collection 'sitemap'.
Sitemap(in) ==
    LET newsItems == GetFilteredByGlob(in)
        mostRecentNewsDate == IF Len(newsItems) > 0 THEN LatestDate(newsItems)
                              ELSE Now
        homePage == << SitemapRecord(HomeUrl, mostRecentNewsDate, 10, "daily") >>
        newsArchive == << SitemapRecord(Url("news", "", 0), mostRecentNewsDate,
                                        9, "daily") >>
        newsPages == SortByDateDesc(
                        [k \in DOMAIN newsItems |->
                            SitemapRecord(newsItems[k].url, newsItems[k].date,
                                          8, "weekly")])
        tagPages == SitemapTagPages(MapKeys(TagOccurrences(newsItems)), 1,
                                    newsItems, in.pageSize)
    IN  homePage \o newsArchive \o newsPages \o tagPages

(***************************************************************************)
(* SpecBuild builds the collections of one set of entries.                 *)
(***************************************************************************)

\* The entries of src/news: the k-th by input path has id k.
EntriesOfLen(n) ==
    { [k \in 1..n |-> [id |-> k, date |-> f[k].date, tags |-> f[k].tags,
                       draft |-> f[k].draft]] :
        f \in [1..n -> [date : 1..MaxDate, tags : TagLists, draft : BOOLEAN]] }

InitBuild ==
    /\ sf = [w \in Widgets |-> NewSearchField]
    /\ focus = Body
    /\ globalPagefind = "unset"
    /\ pagefindModulePromise = "unset"
    /\ importCount = 0
    /\ loadWaiters = << >>
    /\ ensureWaiters = << >>
    /\ microtasks = << >>
    /\ timers = {}
    /\ timerCounter = 0
    /\ calls = {}
    /\ hist = [w \in Widgets |-> NewHistory]
    /\ renderIn = Item(<< >>, FALSE, << >>, << >>)
    /\ renderOut = NoRender
    /\ \E n \in 0..MaxEntries, pageSize \in 1..MaxPageSize, isDev \in BOOLEAN :
           \E entries \in EntriesOfLen(n) :
               buildIn = [entries |-> entries, pageSize |-> pageSize,
                          isDev |-> isDev]
    /\ buildOut = NotBuilt
    /\ linksIn = [pageNumber |-> 0, total |-> 0, maxVisible |-> 0]
    /\ linksOut = << >>
    /\ NoScript
    /\ NoSocial

\* Eleventy builds the collections.
Build ==
    /\ buildOut = NotBuilt
    /\ buildOut' = [ kind |-> "built",
                     news |-> NewsCollection(buildIn),
                     newsPagination |-> NewsPagination(buildIn),
                     tagPagination |-> TagPagination(buildIn),
                     sitemap |-> Sitemap(buildIn) ]
    /\ UNCHANGED << widgetVars, renderVars, buildIn, linksIn, linksOut,
                    scriptVars, socialVars >>

NextBuild == Build

SpecBuild == InitBuild /\ [][NextBuild]_vars


(***************************************************************************)
(* The paginationItems filter.                                             *)
(***************************************************************************)

MaxPages == 10
MaxThreshold == 8
DefaultMaxVisible == 7

\* pagination.hrefs[n - 1] of an index outside of the array.
Undefined == Url("undefined", "", 0)

\* page(n) of paginationItems
Page(pagination, current, n) ==
    [ type |-> "page",
      number |-> n,
      href |-> IF n \in DOMAIN pagination.hrefs THEN pagination.hrefs[n]
               ELSE Undefined,
      isCurrent |-> n = current ]

\* ellipsis of paginationItems
Ellipsis == [type |-> "ellipsis"]

\* range(start, end) of paginationItems
PageRange(pagination, current, start, end) ==
    [i \in 1..(end - start + 1) |-> Page(pagination, current, start + i - 1)]

\* A bug of paginationItems: the window around the current page is not
\* followed by the last page.
WindowItemsWithoutLast(pagination, current, total) ==
    << Page(pagination, current, 1), Ellipsis >>
        \o PageRange(pagination, current, current - 1, current + 1)
        \o << Ellipsis >>

\* The last return of paginationItems: the first page, the window around
\* the current page and the last page, with an ellipsis on each side of
\* the window.
WindowItems(pagination, current, total) ==
    << Page(pagination, current, 1), Ellipsis >>
        \o PageRange(pagination, current, current - 1, current + 1)
        \o << Ellipsis, Page(pagination, current, total) >>

\* paginationItems
PaginationItems(pagination, maxVisible) ==
    LET current == pagination.pageNumber + 1
        total == pagination.pages
    IN  IF total <= maxVisible
        THEN PageRange(pagination, current, 1, total)
        ELSE IF current <= 4
        THEN PageRange(pagination, current, 1, 5)
                 \o << Ellipsis, Page(pagination, current, total) >>
        ELSE IF current >= total - 3
        THEN << Page(pagination, current, 1), Ellipsis >>
                 \o PageRange(pagination, current, total - 4, total)
        ELSE WindowItems(pagination, current, total)

(***************************************************************************)
(* SpecLinks calls paginationItems on one listing page.                    *)
(***************************************************************************)

InitLinks ==
    /\ sf = [w \in Widgets |-> NewSearchField]
    /\ focus = Body
    /\ globalPagefind = "unset"
    /\ pagefindModulePromise = "unset"
    /\ importCount = 0
    /\ loadWaiters = << >>
    /\ ensureWaiters = << >>
    /\ microtasks = << >>
    /\ timers = {}
    /\ timerCounter = 0
    /\ calls = {}
    /\ hist = [w \in Widgets |-> NewHistory]
    /\ renderIn = Item(<< >>, FALSE, << >>, << >>)
    /\ renderOut = NoRender
    /\ buildIn = [entries |-> << >>, pageSize |-> 1, isDev |-> FALSE]
    /\ buildOut = NotBuilt
    /\ \E total \in 1..MaxPages, maxVisible \in 1..MaxThreshold :
          \E pageNumber \in 0..(total - 1) :
              linksIn = [pageNumber |-> pageNumber, total |-> total,
                         maxVisible |-> maxVisible]
    /\ linksOut = << >>
    /\ NoScript
    /\ NoSocial

\* The pagination object of the listing page the filter is called on.
LinksPagination ==
    [ pageNumber |-> linksIn.pageNumber,
      hrefs |-> NewsHrefs(linksIn.total),
      pages |-> linksIn.total ]

\* A template calls the filter.
CallPaginationItems ==
    /\ linksOut = << >>
    /\ linksOut' = PaginationItems(LinksPagination, linksIn.maxVisible)
    /\ UNCHANGED << widgetVars, renderVars, buildIn, buildOut, linksIn,
                    scriptVars, socialVars >>

NextLinks == CallPaginationItems

SpecLinks == InitLinks /\ [][NextLinks]_vars

(***************************************************************************)
(* The authoring scripts new.js and move.js, on the directories below      *)
(* src/news.  A name is a sequence of characters, a path a sequence of     *)
(* names below src/news.                                                   *)
(***************************************************************************)

MaxRuns == 1

Digits == {"0", "1", "2", "3", "4", "5", "6", "7", "8", "9"}

\* The dates given to the scripts: none, one that is well formed, two of
\* another format, one with month 13 and one of another month.
DateInputs ==
    { << >>,
      <<"2", "0", "2", "5", ".", "1", "1", ".", "0", "7">>,
      <<"2", "0", "2", "5", "-", "1", "1", "-", "0", "7">>,
      <<"2", "5", ".", "1", "1", ".", "0", "7">>,
      <<"2", "0", "2", "5", ".", "1", "3", ".", "0", "1">>,
      <<"2", "0", "2", "5", ".", "1", "2", ".", "0", "1">> }

\* The slugs given to the scripts: none, a word, and one that reads like
\* a month.
Slugs == { << >>, <<"a">>, <<"1", "1">> }

TemplateName == <<"t", "e", "m", "p", "l", "a", "t", "e">>
DefaultSlug == <<"s", "l", "u", "g">>

\* dateInput.match(/^(\d{4})\.(\d{2})\.(\d{2})$/)
MatchDatePattern(dateInput) ==
    /\ Len(dateInput) = 10
    /\ \A i \in {1, 2, 3, 4, 6, 7, 9, 10} : dateInput[i] \in Digits
    /\ dateInput[5] = "."
    /\ dateInput[8] = "."

\* The groups of the match.
YearOf(dateInput) == SubSeq(dateInput, 1, 4)
MonthOf(dateInput) == SubSeq(dateInput, 6, 7)
DayOf(dateInput) == SubSeq(dateInput, 9, 10)

\* `${year}-${month}-${day}`
FormattedDate(dateInput) ==
    YearOf(dateInput) \o <<"-">> \o MonthOf(dateInput) \o <<"-">> \o DayOf(dateInput)

\* The lines of an index.yml: a key and a value.
Line(key, value) == [key |-> key, value |-> value]
TitleLine == Line("title", <<"x">>)
PermalinkFalse == Line("permalink", <<"false">>)
DateLine(date) == Line("date", date)
OldDate == <<"2", "0", "2", "4", "-", "0", "1", "-", "0", "1">>

\* The index.yml of a scheduled entry and of a published one.
DraftYml == << TitleLine, DateLine(OldDate), PermalinkFalse >>
PublishedYml == << TitleLine, DateLine(OldDate) >>

\* The index.yml of a scheduled entry with a second date below the first.
OtherDate == <<"2", "0", "2", "4", "-", "0", "2", "-", "0", "2">>
TwoDatesYml == << TitleLine, DateLine(OldDate), PermalinkFalse,
                  DateLine(OtherDate) >>

\* A directory without index.yml.
NoFile == << >>

\* A directory with its index.yml and index.md, and a file.
Dir(yml, md) == [type |-> "dir", yml |-> yml, md |-> md]
EmptyDir == Dir(NoFile, FALSE)
File == [type |-> "file", yml |-> NoFile, md |-> FALSE]

\* Does the line match /date:\s*\d{4}-\d{2}-\d{2}/ ?
IsDateLine(line) ==
    /\ line.key = "date"
    /\ Len(line.value) >= 10
    /\ \A i \in {1, 2, 3, 4, 6, 7, 9, 10} : line.value[i] \in Digits
    /\ line.value[5] = "-"
    /\ line.value[8] = "-"

\* A bug of the replacement: every match is rewritten, as with the g flag.
ReplaceEveryDate(content, formattedDate) ==
    [i \in DOMAIN content |->
        IF IsDateLine(content[i])
        THEN Line("date", formattedDate \o SubSeq(content[i].value, 11,
                                                  Len(content[i].value)))
        ELSE content[i]]

\* content.replace(/date:\s*\d{4}-\d{2}-\d{2}/, `date: ${formattedDate}`):
\* the first match is rewritten.
ReplaceDate(content, formattedDate) ==
    LET matches == {i \in DOMAIN content : IsDateLine(content[i])}
    IN  IF matches = {} THEN content
        ELSE LET first == CHOOSE i \in matches : \A j \in matches : i <= j
             IN  [content EXCEPT ![first] =
                     Line("date", formattedDate \o SubSeq(@.value, 11,
                                                          Len(@.value)))]

\* content.includes('permalink: false')
IncludesPermalinkFalse(content) ==
    \E i \in DOMAIN content : content[i] = PermalinkFalse

\* fs.access(path) succeeds.
Exists(d, path) == path \in DOMAIN d

IsDirectory(d, path) == Exists(d, path) /\ d[path].type = "dir"

\* The paths that lead to path, from the top down to path itself.
Prefixes(path) == {SubSeq(path, 1, n) : n \in 1..Len(path)}

\* fs.mkdir(path, { recursive: true })
Mkdir(d, path) ==
    LET made == Prefixes(path) \ DOMAIN d
    IN  [p \in DOMAIN d \cup made |-> IF p \in made THEN EmptyDir ELSE d[p]]

\* fs.rename(from, to) of a directory that holds files only.
Rename(d, from, to) ==
    [p \in (DOMAIN d \ {from}) \cup {to} |-> IF p = to THEN d[from] ELSE d[p]]

\* fs.writeFile of the index.yml of the directory at path.
WriteYml(d, path, content) ==
    [d EXCEPT ![path].yml = content]

\* The outcome of a run: the disk it leaves, its exit status, the error it
\* printed when it failed, and the directory findScheduledNews returned
\* (none: null, or the script is new.js).
Outcome(d, exit, error, sourcePath) ==
    [disk |-> d, exit |-> exit, error |-> error, sourcePath |-> sourcePath]

Null == << >>

\* A bug of createNewPost: the target is not looked for.
TargetTakenIgnored(d, targetDir) ==
    FALSE

\* new.js, lines 35-38: fs.access(targetDir) succeeds.
TargetTaken(d, targetDir) ==
    Exists(d, targetDir)

\* createNewPost, with the main lines of new.js around it.  denied: the
\* access to the target fails with an error other than ENOENT.
CreateNewPost(d, dateInput, slug, denied) ==
    LET folderName == IF slug # << >> THEN slug ELSE DefaultSlug
        templateDir == << TemplateName >>
        targetDir == << YearOf(dateInput), MonthOf(dateInput), folderName >>
    IN  IF dateInput = << >> THEN Outcome(d, 1, "usage", Null)
        ELSE IF ~MatchDatePattern(dateInput) THEN Outcome(d, 1, "invalid date format", Null)
        ELSE IF ~Exists(d, templateDir) THEN Outcome(d, 1, "template not found", Null)
        ELSE IF ~denied /\ TargetTaken(d, targetDir)
        THEN Outcome(d, 1, "already exists", Null)
        ELSE IF denied THEN Outcome(d, 1, "error accessing target", Null)
        ELSE LET made == Mkdir(d, targetDir)
             IN  IF ~IsDirectory(d, templateDir)
                 THEN Outcome(made, 1, "not a directory", Null)
                 ELSE Outcome(
                        [made EXCEPT ![targetDir] =
                            Dir(IF d[templateDir].yml = NoFile THEN NoFile
                                ELSE ReplaceDate(d[templateDir].yml,
                                                 FormattedDate(dateInput)),
                                d[templateDir].md)],
                        0, "", Null)

\* findScheduledNews: the directories the search can return, whatever the
\* order in which readdir lists a directory.  The search goes down into
\* every directory that is not named slug, and of those named slug it
\* reads the index.yml.
FindScheduledNews(d, slug) ==
    {path \in DOMAIN d :
        /\ IsDirectory(d, path)
        /\ path[Len(path)] = slug
        /\ \A n \in 1..(Len(path) - 1) :
              /\ IsDirectory(d, SubSeq(path, 1, n))
              /\ path[n] # slug
        /\ d[path].yml # NoFile
        /\ IncludesPermalinkFalse(d[path].yml)}

\* A bug of moveNews: the destination is not looked for.
DestinationTakenIgnored(d, targetDir) ==
    FALSE

\* move.js, lines 82-85: fs.access(targetDir) succeeds.
DestinationTaken(d, targetDir) ==
    Exists(d, targetDir)

\* moveNews once findScheduledNews has returned sourcePath.
MoveLocated(d, dateInput, slug, sourcePath, denied) ==
    LET formattedDate == FormattedDate(dateInput)
        targetDir == << YearOf(dateInput), MonthOf(dateInput), slug >>
    IN  IF sourcePath = targetDir
        THEN Outcome(WriteYml(d, sourcePath,
                              ReplaceDate(d[sourcePath].yml, formattedDate)),
                     0, "", sourcePath)
        ELSE IF ~denied /\ DestinationTaken(d, targetDir)
        THEN Outcome(d, 1, "already exists", sourcePath)
        ELSE IF denied THEN Outcome(d, 1, "error accessing target", sourcePath)
        ELSE LET made == Mkdir(d, SubSeq(targetDir, 1, Len(targetDir) - 1))
                 moved == Rename(made, sourcePath, targetDir)
             IN  Outcome(WriteYml(moved, targetDir,
                                  ReplaceDate(moved[targetDir].yml, formattedDate)),
                         0, "", sourcePath)

\* moveNews, with the main lines of move.js around it: the outcomes it can
\* have, one for each directory findScheduledNews can return.
MoveNews(d, dateInput, slug, denied) ==
    IF dateInput = << >> \/ slug = << >> THEN {Outcome(d, 1, "usage", Null)}
    ELSE IF ~MatchDatePattern(dateInput)
    THEN {Outcome(d, 1, "invalid date format", Null)}
    ELSE IF FindScheduledNews(d, slug) = {}
    THEN {Outcome(d, 1, "no scheduled news found", Null)}
    ELSE {MoveLocated(d, dateInput, slug, sourcePath, denied) :
              sourcePath \in FindScheduledNews(d, slug)}

(***************************************************************************)
(* SpecScripts runs the scripts, one after the other, on a disk that holds *)
(* the template and entries of both kinds.                                 *)
(***************************************************************************)

\* The entries the disk may hold at first: two of one slug in two months,
\* and one whose slug is the name of its month.
FirstEntries ==
    { << <<"2", "0", "2", "5">>, <<"1", "1">>, <<"a">> >>,
      << <<"2", "0", "2", "5">>, <<"1", "2">>, <<"a">> >>,
      << <<"2", "0", "2", "5">>, <<"1", "1">>, <<"1", "1">> >> }

\* What an entry may be at first: absent, scheduled or published, and
\* for the first of them also scheduled with two dates in its index.yml.
FirstKinds(path) ==
    IF path = << <<"2", "0", "2", "5">>, <<"1", "1">>, <<"a">> >>
    THEN {"absent", "draft", "published", "two dates"}
    ELSE {"absent", "draft", "published"}

\* The disk that holds the template as told (a directory, a file or
\* missing) and the entries as told (scheduled, published or absent).
FirstDisk(template, kinds) ==
    LET entries == {path \in FirstEntries : kinds[path] # "absent"}
        above == UNION {Prefixes(path) : path \in entries} \ entries
        templates == IF template = "missing" THEN {} ELSE {<< TemplateName >>}
    IN  [p \in entries \cup above \cup templates |->
            IF p \in templates
            THEN IF template = "dir" THEN Dir(DraftYml, TRUE) ELSE File
            ELSE IF p \in above THEN EmptyDir
            ELSE IF kinds[p] = "draft" THEN Dir(DraftYml, TRUE)
            ELSE IF kinds[p] = "two dates" THEN Dir(TwoDatesYml, TRUE)
            ELSE Dir(PublishedYml, TRUE)]

\* A run of a script: its arguments and its outcome.
Run(n, tool, dateInput, slug, denied, outcome) ==
    [ n |-> n, tool |-> tool, dateInput |-> dateInput, slug |-> slug,
      denied |-> denied, exit |-> outcome.exit, error |-> outcome.error,
      sourcePath |-> outcome.sourcePath ]

InitScripts ==
    /\ sf = [w \in Widgets |-> NewSearchField]
    /\ focus = Body
    /\ globalPagefind = "unset"
    /\ pagefindModulePromise = "unset"
    /\ importCount = 0
    /\ loadWaiters = << >>
    /\ ensureWaiters = << >>
    /\ microtasks = << >>
    /\ timers = {}
    /\ timerCounter = 0
    /\ calls = {}
    /\ hist = [w \in Widgets |-> NewHistory]
    /\ renderIn = Item(<< >>, FALSE, << >>, << >>)
    /\ renderOut = NoRender
    /\ NoBuild
    /\ \E template \in {"dir", "file", "missing"},
          kinds \in [FirstEntries ->
                       {"absent", "draft", "published", "two dates"}] :
            /\ \A path \in FirstEntries : kinds[path] \in FirstKinds(path)
            /\ disk = FirstDisk(template, kinds)
    /\ run = NotRun
    /\ NoSocial

\* npm run new dateInput slug
RunNew(dateInput, slug, denied) ==
    /\ run.n < MaxRuns
    /\ LET outcome == CreateNewPost(disk, dateInput, slug, denied)
       IN  /\ disk' = outcome.disk
           /\ run' = Run(run.n + 1, "new", dateInput, slug, denied, outcome)
    /\ UNCHANGED << widgetVars, renderVars, buildVars, socialVars >>

\* npm run move dateInput slug
RunMove(dateInput, slug, denied) ==
    /\ run.n < MaxRuns
    /\ \E outcome \in MoveNews(disk, dateInput, slug, denied) :
           /\ disk' = outcome.disk
           /\ run' = Run(run.n + 1, "move", dateInput, slug, denied, outcome)
    /\ UNCHANGED << widgetVars, renderVars, buildVars, socialVars >>

NextScripts ==
    \/ \E dateInput \in DateInputs, slug \in Slugs, denied \in BOOLEAN :
           RunNew(dateInput, slug, denied)
    \/ \E dateInput \in DateInputs, slug \in Slugs, denied \in BOOLEAN :
           RunMove(dateInput, slug, denied)

SpecScripts == InitScripts /\ [][NextScripts]_vars

(***************************************************************************)
(* The cross-post script, scripts/crosspost.js.  A string is a sequence of *)
(* characters; white space (\s) is the space and the line feed.            *)
(***************************************************************************)

\* Padding of the longest bodies around the length that fills the budget,
\* and the longest tag list.
MaxPad == 1
MaxTags == 2

MASTODON_CHAR_LIMIT == 500
MASTODON_URL_LENGTH == 23

LineFeed == "\n"

\* The grave accent U+0060, which a TLA+ string cannot hold.
Backtick == "U+0060"

IsWhitespace(ch) ==
    ch \in {" ", LineFeed}

HttpScheme == <<"h", "t", "t", "p", ":", "/", "/">>
HttpsScheme == <<"h", "t", "t", "p", "s", ":", "/", "/">>

\* s has prefix at position i.
StartsWithAt(s, i, prefix) ==
    /\ i + Len(prefix) - 1 <= Len(s)
    /\ SubSeq(s, i, i + Len(prefix) - 1) = prefix

\* The least number of a non-empty set of numbers.
Least(S) ==
    CHOOSE x \in S : \A y \in S : x <= y

\* [^\s]+ from position i is greedy: the first position from i on that
\* holds white space, or the position after the end of s.
NonSpaceEnd(s, i) ==
    Least({j \in i..Len(s) : IsWhitespace(s[j])} \cup {Len(s) + 1})

\* The position after the scheme https?:\/\/ when s has it at i, else 0.
SchemeEnd(s, i) ==
    IF StartsWithAt(s, i, HttpScheme) THEN i + Len(HttpScheme)
    ELSE IF StartsWithAt(s, i, HttpsScheme) THEN i + Len(HttpsScheme)
    ELSE 0

\* /https?:\/\/[^\s]+/ tried at position i of s: the position after the
\* match, or 0 when there is none (the scheme needs one more character).
MatchUrlAt(s, i) ==
    LET after == SchemeEnd(s, i)
        end == IF after = 0 THEN 0 ELSE NonSpaceEnd(s, after)
    IN  IF after # 0 /\ end > after THEN end ELSE 0

\* message.replace(/https?:\/\/[^\s]+/g, rep) from position i on: the
\* matches are found left to right and do not overlap; what lies between
\* them is kept.
RECURSIVE ReplaceUrls(_, _, _)
ReplaceUrls(s, i, rep) ==
    LET starts == {j \in i..Len(s) : MatchUrlAt(s, j) # 0}
    IN  IF starts = {} THEN SubSeq(s, i, Len(s))
        ELSE LET start == Least(starts)
             IN  SubSeq(s, i, start - 1) \o rep
                     \o ReplaceUrls(s, MatchUrlAt(s, start), rep)

\* 'x'.repeat(n)
Repeat(ch, n) ==
    [k \in 1..n |-> ch]

CountWithoutPlaceholders(message) ==
    Len(message)

calculateMastodonLength(message) ==
    Len(ReplaceUrls(message, 1, Repeat("x", MASTODON_URL_LENGTH)))

validateMessageLength(message, limit) ==
    LET length == calculateMastodonLength(message)
    IN  [valid |-> length <= limit, length |-> length, limit |-> limit]

\* Array.prototype.join
RECURSIVE Join(_, _)
Join(strings, separator) ==
    IF strings = << >> THEN << >>
    ELSE IF Len(strings) = 1 THEN strings[1]
    ELSE strings[1] \o separator \o Join(Tail(strings), separator)

HashtagsJoinedWithoutSpace(tags) ==
    Join([k \in DOMAIN tags |-> <<"#">> \o tags[k]], << >>)

\* tags.map(tag => `#${tag}`).join(' ')
Hashtags(tags) ==
    Join([k \in DOMAIN tags |-> <<"#">> \o tags[k]], <<" ">>)

\* String.prototype.replace(/ch/g, ''): s without its characters ch.
RemoveAll(s, ch) ==
    SelectSeq(s, LAMBDA c : c # ch)

\* createMessage(postData, platform); the platform is not used.
createMessage(postData) ==
    LET plainDescription == RemoveAll(postData.description, Backtick)
        hashtags == Hashtags(postData.tags)
        hashtagsPart == IF hashtags # << >> THEN <<" ">> \o hashtags ELSE << >>
        linkPart == <<LineFeed, LineFeed>> \o postData.link
        content == postData.title \o <<".", " ">> \o plainDescription
    IN  content \o hashtagsPart \o linkPart

(***************************************************************************)
(* SpecCompose composes the message of one post and counts its length.     *)
(***************************************************************************)

PostData(title, description, link, tags) ==
    [title |-> title, description |-> description, link |-> link, tags |-> tags]

ExampleTitle == <<"E", "x", "a", "m", "p", "l", "e">>
ExampleBody == <<"A", " ", "t", "e", "s", "t", ".">>
ExampleLink == HttpsScheme \o <<"e", "x", "a", "m", "p", "l", "e", ".", "c", "o", "m">>
Web == <<"w", "e", "b">>
Css == <<"c", "s", "s">>

Titles == { <<"T">>, ExampleTitle }

\* The length of the body that, with the title 'T', no tags and a link,
\* fills the budget: 'T' + '. ' + body + two line feeds + the link.
FillLen == MASTODON_CHAR_LIMIT - (1 + 2 + 2 + MASTODON_URL_LENGTH)

\* Bodies: the example, one with inline code, one that holds a URL, one
\* that holds a scheme with nothing after it, and long ones.
Bodies ==
    { ExampleBody,
      <<"a", Backtick, "b", Backtick>>,
      <<"s", "e", "e", " ">> \o HttpScheme \o <<"y", " ", "z">>,
      HttpScheme \o <<" ", "a">> }
        \cup { Repeat("a", FillLen + d) : d \in (0 - MaxPad)..MaxPad }

\* Links: the example, a short one, and one longer than the placeholder.
Links ==
    { ExampleLink,
      HttpScheme \o <<"e">>,
      HttpsScheme \o Repeat("e", MASTODON_URL_LENGTH) }

RECURSIVE TagListsOfLen(_)
TagListsOfLen(n) ==
    IF n = 0 THEN {<< >>}
    ELSE {<<t>> \o rest : t \in {Web, Css}, rest \in TagListsOfLen(n - 1)}

InitCompose ==
    /\ sf = [w \in Widgets |-> NewSearchField]
    /\ focus = Body
    /\ globalPagefind = "unset"
    /\ pagefindModulePromise = "unset"
    /\ importCount = 0
    /\ loadWaiters = << >>
    /\ ensureWaiters = << >>
    /\ microtasks = << >>
    /\ timers = {}
    /\ timerCounter = 0
    /\ calls = {}
    /\ hist = [w \in Widgets |-> NewHistory]
    /\ renderIn = Item(<< >>, FALSE, << >>, << >>)
    /\ renderOut = NoRender
    /\ NoBuild
    /\ NoScript
    /\ \E title \in Titles, description \in Bodies, link \in Links,
          n \in 0..MaxTags :
           \E tags \in TagListsOfLen(n) :
               msgIn = PostData(title, description, link, tags)
    /\ msgOut = NotStarted
    /\ crossIn = NotStarted
    /\ crossRun = NotStarted
    /\ trackIn = NotStarted
    /\ trackRun = NotStarted

\* createMessage(postData, 'mastodon')
Compose ==
    /\ msgOut = NotStarted
    /\ msgOut' = [pc |-> "composed", message |-> createMessage(msgIn)]
    /\ UNCHANGED << widgetVars, renderVars, buildVars, scriptVars, msgIn,
                    crossIn, crossRun, trackIn, trackRun >>

\* validateMessageLength(message)
Validate ==
    /\ msgOut.pc = "composed"
    /\ msgOut' = [pc |-> "validated", message |-> msgOut.message,
                  validation |->
                      validateMessageLength(msgOut.message, MASTODON_CHAR_LIMIT)]
    /\ UNCHANGED << widgetVars, renderVars, buildVars, scriptVars, msgIn,
                    crossIn, crossRun, trackIn, trackRun >>

NextCompose ==
    \/ Compose
    \/ Validate

SpecCompose == InitCompose /\ [][NextCompose]_vars

(***************************************************************************)
(* SpecCrosspost follows one run of scripts/crosspost.js: main parses the  *)
(* arguments, awaits loadPostData, composes the message and either prints  *)
(* it (dry run) or awaits client.postTo.                                   *)
(***************************************************************************)

\* The longest argument list of a run.
MaxArgs == 2

DryRunFlag == <<"-", "-", "d", "r", "y", "-", "r", "u", "n">>
HelpFlag == <<"-", "-", "h", "e", "l", "p">>
ShortHelpFlag == <<"-", "h">>
UnknownFlag == <<"-", "-", "x">>
NewsPrefix == <<"s", "r", "c", "/", "n", "e", "w", "s", "/">>

\* The slug of the one post that may be on the disk, src/news/1/a.
PostSlug == <<"1", "/", "a">>

ArgTokens ==
    { PostSlug, NewsPrefix \o PostSlug, DryRunFlag, HelpFlag, ShortHelpFlag,
      UnknownFlag }

\* arg.replace(/^src\/news\//, '')
StripNewsPrefix(arg) ==
    IF StartsWithAt(arg, 1, NewsPrefix)
    THEN SubSeq(arg, Len(NewsPrefix) + 1, Len(arg))
    ELSE arg

NeverDryRun(arg) ==
    FALSE

\* arg === '--dry-run'
IsDryRunArg(arg) ==
    arg = DryRunFlag

\* The body of the loop of parseArgs for one argument.
ParseArg(parsed, arg) ==
    IF arg = HelpFlag \/ arg = ShortHelpFlag
    THEN [parsed EXCEPT !.showHelp = TRUE]
    ELSE IF IsDryRunArg(arg)
    THEN [parsed EXCEPT !.isDryRun = TRUE]
    ELSE IF ~StartsWithAt(arg, 1, <<"-", "-">>)
    THEN [parsed EXCEPT !.newsSlug = StripNewsPrefix(arg)]
    ELSE parsed

RECURSIVE ParseArgsFrom(_, _)
ParseArgsFrom(parsed, args) ==
    IF args = << >> THEN parsed
    ELSE ParseArgsFrom(ParseArg(parsed, Head(args)), Tail(args))

\* parseArgs(args); a newsSlug of null is Null, which is falsy as '' is.
parseArgs(args) ==
    ParseArgsFrom([newsSlug |-> Null, isDryRun |-> FALSE, showHelp |-> FALSE],
                  args)

\* loadPostData(postPath) for `src/news/${newsSlug}`: the error thrown, or
\* the post data, with the image when cover.avif is there and converts.
loadPostData(in, newsSlug) ==
    IF newsSlug # PostSlug \/ ~in.yml
    THEN [ok |-> FALSE, error |-> "YAML file not found"]
    ELSE IF ~in.md
    THEN [ok |-> FALSE, error |-> "Markdown file not found"]
    ELSE [ok |-> TRUE, error |-> "",
          postData |-> PostData(in.title, Trim(in.mdContent), in.link, in.tags),
          imageData |-> in.cover = "converts"]

StrategiesWithoutCredentials(in) ==
    [ok |-> TRUE, error |-> "", platforms |-> <<"mastodon">>]

\* initializeStrategies(): the platforms of the strategies, or the error.
initializeStrategies(in) ==
    IF in.token /\ in.host
    THEN [ok |-> TRUE, error |-> "", platforms |-> <<"mastodon">>]
    ELSE [ok |-> FALSE, error |-> "No Mastodon credentials found",
          platforms |-> << >>]

\* The state of the run: where it is, and what it has done so far.
CrossRun(pc, exit, usage, printed, clients, posted, error) ==
    [pc |-> pc, exit |-> exit, usage |-> usage, printed |-> printed,
     clients |-> clients, posted |-> posted, error |-> error]

\* process.exit(code), or the end of main (code 0).
Exited(r, code, error) ==
    [r EXCEPT !.pc = "exited", !.exit = code, !.error = error]

\* The entry of client.postTo for a message.
Entry(message, imageData) ==
    [message |-> message, strategyId |-> "mastodon", images |-> imageData]

\* postToSocial(strategies, platforms, postData) up to its await: the client
\* is made, the message composed, logged and validated, and postTo called.
postToSocial(r, loaded) ==
    LET message == createMessage(loaded.postData)
        made == [r EXCEPT !.clients = @ + 1, !.printed = Append(@, message)]
        validation == validateMessageLength(message, MASTODON_CHAR_LIMIT)
    IN  IF ~validation.valid
        THEN Exited(made, 1, "Mastodon message exceeds character limit")
        ELSE [made EXCEPT !.pc = "posting",
                          !.posted = Append(@, Entry(message, loaded.imageData))]

\* What main does once loadPostData has settled.
AfterLoad(r, in, parsed, loaded) ==
    IF ~loaded.ok THEN Exited(r, 1, loaded.error)
    ELSE IF parsed.isDryRun
    THEN Exited([r EXCEPT !.printed =
                     Append(@, createMessage(loaded.postData))], 0, "")
    ELSE LET made == initializeStrategies(in)
         IN  IF ~made.ok THEN Exited(r, 1, made.error)
             ELSE postToSocial(r, loaded)

\* The posts of a run: the example, one whose body fills the budget once
\* it is trimmed, and one that is a character too long.
CrossPosts ==
    { PostData(ExampleTitle, ExampleBody, ExampleLink, <<Web, Css>>),
      PostData(<<"T">>, Repeat("a", FillLen) \o <<" ">>, HttpScheme \o <<"e">>,
               << >>),
      PostData(<<"T">>, Repeat("a", FillLen + 1), HttpScheme \o <<"e">>,
               << >>) }

RECURSIVE ArgLists(_)
ArgLists(n) ==
    IF n = 0 THEN {<< >>}
    ELSE {<<arg>> \o rest : arg \in ArgTokens, rest \in ArgLists(n - 1)}

InitCrosspost ==
    /\ sf = [w \in Widgets |-> NewSearchField]
    /\ focus = Body
    /\ globalPagefind = "unset"
    /\ pagefindModulePromise = "unset"
    /\ importCount = 0
    /\ loadWaiters = << >>
    /\ ensureWaiters = << >>
    /\ microtasks = << >>
    /\ timers = {}
    /\ timerCounter = 0
    /\ calls = {}
    /\ hist = [w \in Widgets |-> NewHistory]
    /\ renderIn = Item(<< >>, FALSE, << >>, << >>)
    /\ renderOut = NoRender
    /\ NoBuild
    /\ NoScript
    /\ msgIn = NotStarted
    /\ msgOut = NotStarted
    /\ \E n \in 0..MaxArgs, token \in BOOLEAN, host \in BOOLEAN,
          files \in {"both", "no yml", "no md"},
          cover \in {"none", "converts", "fails"}, post \in CrossPosts :
           \E args \in ArgLists(n) :
               crossIn = [pc |-> "given", args |-> args, token |-> token,
                          host |-> host, yml |-> files # "no yml",
                          md |-> files # "no md", cover |-> cover,
                          title |-> post.title, mdContent |-> post.description,
                          link |-> post.link, tags |-> post.tags]
    /\ crossRun = CrossRun("start", 0, FALSE, << >>, 0, << >>, "")
    /\ trackIn = NotStarted
    /\ trackRun = NotStarted

\* main() up to its first await: the arguments are parsed; the usage is
\* printed and the process exits, or loadPostData is called.
Main ==
    /\ crossRun.pc = "start"
    /\ LET parsed == parseArgs(crossIn.args)
       IN  crossRun' =
               IF parsed.showHelp \/ parsed.newsSlug = Null
               THEN Exited([crossRun EXCEPT !.usage = TRUE],
                           IF parsed.newsSlug # Null THEN 0 ELSE 1, "")
               ELSE [crossRun EXCEPT !.pc = "loading"]
    /\ UNCHANGED << widgetVars, renderVars, buildVars, scriptVars, msgIn,
                    msgOut, crossIn, trackIn, trackRun >>

\* loadPostData settles and main goes on to its next await or to its end.
LoadSettles ==
    /\ crossRun.pc = "loading"
    /\ LET parsed == parseArgs(crossIn.args)
       IN  crossRun' = AfterLoad(crossRun, crossIn, parsed,
                                 loadPostData(crossIn, parsed.newsSlug))
    /\ UNCHANGED << widgetVars, renderVars, buildVars, scriptVars, msgIn,
                    msgOut, crossIn, trackIn, trackRun >>

\* client.postTo settles: with a result that is a success, with one that is
\* a failure, or with a rejection.
PostSettles(outcome) ==
    /\ crossRun.pc = "posting"
    /\ crossRun' = IF outcome = "rejected"
                   THEN Exited(crossRun, 1, "Error posting to social media")
                   ELSE Exited(crossRun, 0,
                               IF outcome = "failed" THEN "Failed" ELSE "")
    /\ UNCHANGED << widgetVars, renderVars, buildVars, scriptVars, msgIn,
                    msgOut, crossIn, trackIn, trackRun >>

NextCrosspost ==
    \/ Main
    \/ LoadSettles
    \/ \E outcome \in {"success", "failed", "rejected"} : PostSettles(outcome)

SpecCrosspost == InitCrosspost /\ [][NextCrosspost]_vars

(***************************************************************************)
(* SpecTrack follows one run of the follower-tracking script: main loads   *)
(* the cache, launches the browser, awaits the three fetches together,     *)
(* records today's counts, closes the browser and saves the cache.         *)
(***************************************************************************)

\* The days a cache may hold (the last is today) and the largest count.
MaxDays == 2
MaxFollowers == 2

Days == 1..MaxDays
Today == MaxDays

Platforms == {"mastodon", "bluesky", "x"}

\* The values of JavaScript that a count may be.
JsNull == [kind |-> "null", n |-> 0]
JsUndefined == [kind |-> "undefined", n |-> 0]
Num(n) == [kind |-> "number", n |-> n]

\* How a fetch goes: an awaited call rejects (the time-out included), the
\* response is not ok, the answer holds no count, or it holds one.
FetchOutcome(kind, n) == [kind |-> kind, n |-> n]

ApiOutcomes ==
    { FetchOutcome(kind, 0) : kind \in {"rejects", "not ok", "no count"} }
        \cup { FetchOutcome("count", n) : n \in 0..MaxFollowers }

PageOutcomes ==
    { FetchOutcome(kind, 0) : kind \in {"rejects", "no count"} }
        \cup { FetchOutcome("count", n) : n \in 0..MaxFollowers }

OutcomesOf(platform) ==
    IF platform = "x" THEN PageOutcomes ELSE ApiOutcomes

\* getMastodonFollowers: data.followers_count, or null from the catch.
getMastodonFollowers(outcome) ==
    IF outcome.kind \in {"rejects", "not ok"} THEN JsNull
    ELSE IF outcome.kind = "no count" THEN JsUndefined
    ELSE Num(outcome.n)

\* getBlueskyFollowers: data.followersCount, or null from the catch.
getBlueskyFollowers(outcome) ==
    IF outcome.kind \in {"rejects", "not ok"} THEN JsNull
    ELSE IF outcome.kind = "no count" THEN JsUndefined
    ELSE Num(outcome.n)

\* getXFollowers: the number parsed from the text of the followers link,
\* null when the text holds none, or null from the catch.
getXFollowers(outcome) ==
    IF outcome.kind = "count" THEN Num(outcome.n) ELSE JsNull

GetFollowers(platform, outcome) ==
    IF platform = "mastodon" THEN getMastodonFollowers(outcome)
    ELSE IF platform = "bluesky" THEN getBlueskyFollowers(outcome)
    ELSE getXFollowers(outcome)

\* A record of the cache: { date, x, mastodon, bluesky }.
DayRecord(date, x, mastodon, bluesky) ==
    [date |-> date, x |-> x, mastodon |-> mastodon, bluesky |-> bluesky]

\* The records a cache may hold for a day before the run.
OldRecords(date) ==
    { DayRecord(date, JsNull, JsNull, JsNull),
      DayRecord(date, Num(1), Num(MaxFollowers), Num(0)) }

\* The caches on the disk: objects keyed by the days they hold.
Caches ==
    UNION { {c \in [held -> UNION {OldRecords(d) : d \in held}] :
                \A d \in held : c[d].date = d} : held \in SUBSET Days }

EmptyCache == << >>

\* A key that a record of the file does not have.
JsonAbsent == [kind |-> "absent", n |-> 0]

\* JSON.stringify of a record: a key whose value is undefined is left out.
StringifyRecord(r) ==
    [k \in DOMAIN r |->
        IF k # "date" /\ r[k] = JsUndefined THEN JsonAbsent ELSE r[k]]

\* JSON.stringify(cache, null, '\t')
Stringify(cache) ==
    [d \in DOMAIN cache |-> StringifyRecord(cache[d])]

\* JSON.parse of a record: a key that is left out reads as undefined.
ParseRecord(r) ==
    [k \in DOMAIN r |->
        IF k # "date" /\ r[k] = JsonAbsent THEN JsUndefined ELSE r[k]]

\* JSON.parse(readFileSync(cacheFile, 'utf-8'))
Parse(json) ==
    [d \in DOMAIN json |-> ParseRecord(json[d])]

\* loadCache(): the object of the file, or {} when there is no file or it
\* does not parse.
loadCache(file) ==
    IF file.kind = "json" THEN Parse(file.json) ELSE EmptyCache

\* saveCache(cache): the file after it; a failure to write is ignored.
saveCache(file, cache, writable) ==
    IF writable THEN [kind |-> "json", json |-> Stringify(cache)] ELSE file

\* cache[today] = { date: today, ...followers }
WithToday(cache, followers) ==
    [d \in DOMAIN cache \cup {Today} |->
        IF d = Today
        THEN DayRecord(Today, followers["x"], followers["mastodon"],
                       followers["bluesky"])
        ELSE cache[d]]

\* The state of the run.
TrackRun(pc, cache, launched, pending, outcomes, closed, file) ==
    [pc |-> pc, cache |-> cache, launched |-> launched, pending |-> pending,
     outcomes |-> outcomes, closed |-> closed, file |-> file]

InitTrack ==
    /\ sf = [w \in Widgets |-> NewSearchField]
    /\ focus = Body
    /\ globalPagefind = "unset"
    /\ pagefindModulePromise = "unset"
    /\ importCount = 0
    /\ loadWaiters = << >>
    /\ ensureWaiters = << >>
    /\ microtasks = << >>
    /\ timers = {}
    /\ timerCounter = 0
    /\ calls = {}
    /\ hist = [w \in Widgets |-> NewHistory]
    /\ renderIn = Item(<< >>, FALSE, << >>, << >>)
    /\ renderOut = NoRender
    /\ NoBuild
    /\ NoScript
    /\ msgIn = NotStarted
    /\ msgOut = NotStarted
    /\ crossIn = NotStarted
    /\ crossRun = NotStarted
    /\ \E writable \in BOOLEAN :
          \/ \E kind \in {"missing", "corrupt"} :
                 trackIn = [pc |-> "given", writable |-> writable,
                            file |-> [kind |-> kind, json |-> EmptyCache]]
          \/ \E cache \in Caches :
                 trackIn = [pc |-> "given", writable |-> writable,
                            file |-> [kind |-> "json", json |-> Stringify(cache)]]
    /\ trackRun = TrackRun("start", EmptyCache, "no", {},
                           [p \in Platforms |-> FetchOutcome("none", 0)], "no",
                           trackIn.file)

\* main() up to its first await: the cache is loaded and the browser is
\* asked for.
TrackMain ==
    /\ trackRun.pc = "start"
    /\ trackRun' = [trackRun EXCEPT !.pc = "launching",
                                    !.cache = loadCache(trackIn.file)]
    /\ UNCHANGED << widgetVars, renderVars, buildVars, scriptVars, msgIn,
                    msgOut, crossIn, crossRun, trackIn >>

\* puppeteer.launch settles.  With a browser, fetchFollowers starts the
\* three fetches; without one, the finally block has nothing to close and
\* main rejects with the error of the launch.
LaunchSettles(ok) ==
    /\ trackRun.pc = "launching"
    /\ trackRun' = IF ok
                   THEN [trackRun EXCEPT !.pc = "fetching",
                                         !.launched = "yes",
                                         !.pending = Platforms]
                   ELSE [trackRun EXCEPT !.pc = "rejected",
                                         !.launched = "failed"]
    /\ UNCHANGED << widgetVars, renderVars, buildVars, scriptVars, msgIn,
                    msgOut, crossIn, crossRun, trackIn >>

\* The followers of every platform, by the outcomes of the fetches.
Followers(outcomes) ==
    [p \in Platforms |-> GetFollowers(p, outcomes[p])]

\* The fetch of one platform settles; with the last of them Promise.all
\* resolves, today's record is put into the cache and the browser is asked
\* to close.
FetchSettles(platform, outcome) ==
    /\ trackRun.pc = "fetching"
    /\ platform \in trackRun.pending
    /\ LET outcomes == [trackRun.outcomes EXCEPT ![platform] = outcome]
           pending == trackRun.pending \ {platform}
       IN  trackRun' =
               IF pending # {}
               THEN [trackRun EXCEPT !.outcomes = outcomes,
                                     !.pending = pending]
               ELSE [trackRun EXCEPT !.outcomes = outcomes,
                                     !.pending = pending,
                                     !.pc = "closing",
                                     !.cache = WithToday(trackRun.cache,
                                                         Followers(outcomes))]
    /\ UNCHANGED << widgetVars, renderVars, buildVars, scriptVars, msgIn,
                    msgOut, crossIn, crossRun, trackIn >>

\* browser.close() settles: main saves the cache, or rejects.
CloseSettles(ok) ==
    /\ trackRun.pc = "closing"
    /\ trackRun' = IF ok
                   THEN [trackRun EXCEPT !.pc = "done", !.closed = "yes",
                             !.file = saveCache(trackRun.file, trackRun.cache,
                                                trackIn.writable)]
                   ELSE [trackRun EXCEPT !.pc = "rejected",
                                         !.closed = "failed"]
    /\ UNCHANGED << widgetVars, renderVars, buildVars, scriptVars, msgIn,
                    msgOut, crossIn, crossRun, trackIn >>

NextTrack ==
    \/ TrackMain
    \/ \E ok \in BOOLEAN : LaunchSettles(ok)
    \/ \E platform \in Platforms :
           \E outcome \in OutcomesOf(platform) : FetchSettles(platform, outcome)
    \/ \E ok \in BOOLEAN : CloseSettles(ok)

SpecTrack == InitTrack /\ [][NextTrack]_vars

(***************************************************************************)
(* Properties of the search widget.                                        *)
(***************************************************************************)

\* C1: last query wins.  Whenever a performSearch call renders its results
\* (or the placeholder), it is the call dispatched last by its widget: the
\* results of an earlier query are never rendered once a later one has been
\* dispatched.
C1_LastQueryWins ==
    [][\A w \in Widgets :
          hist'[w].rendered # hist[w].rendered
              => hist'[w].rendered = hist'[w].searched]_vars

\* C2: debounce coalescing.  After an input event the widget holds exactly
\* one timer, armed with the trimmed value of that event and due DebounceMs
\* after it, every earlier timer being cancelled; the timer's callback runs
\* performSearch once, no sooner than DebounceMs after the event and with
\* that value, and no other callback runs.
C2_DebounceCoalesces ==
    \A w \in Widgets :
        hist[w].inputs > 0 =>
            LET mine == {t \in timers : t.w = w}
            IN  \/ /\ hist[w].called = << >>
                   /\ mine = {[id |-> sf[w].debounceTimer, w |-> w,
                               value |-> Trim(hist[w].lastEvent),
                               remaining |-> DebounceMs - hist[w].sinceInput]}
                \/ /\ hist[w].called = << Trim(hist[w].lastEvent) >>
                   /\ mine = {}
                   /\ hist[w].sinceInput = DebounceMs

\* C2 witness: three input events, the last less than DebounceMs after the
\* one before it and left with white space around the query, and the one
\* callback that followed has run.
C2_Witness ==
    \E w \in Widgets :
        /\ hist[w].inputs = 3
        /\ hist[w].gap < DebounceMs
        /\ hist[w].lastEvent = <<"b", " ">>
        /\ hist[w].called = << <<"b">> >>

\* The widgets in a sequence of widgets.
Range(seq) == {seq[k] : k \in DOMAIN seq}

\* C3: the index module is loaded at most once per page.  Whatever the
\* widgets do, the import is started at most once; a widget whose promise
\* is pending while the import is in flight waits for that import; and a
\* widget holds a search function only once the module has been stored in
\* globalThis.pagefind.
C3_ModuleLoadedAtMostOnce ==
    /\ importCount <= 1
    /\ (importCount = 0) <=> (pagefindModulePromise = "unset")
    /\ \A w \in Widgets :
          /\ (sf[w].pagefindSearchPromise = "pending"
                /\ pagefindModulePromise = "pending") => w \in Range(loadWaiters)
          /\ sf[w].pagefindSearch => globalPagefind = "ok"

\* C3 witness: two widgets hold the search function after one import, the
\* second of them having asked for the module after it was loaded.
C3_Witness ==
    /\ importCount = 1
    /\ \A w \in Widgets : sf[w].pagefindSearch
    /\ \E w \in Widgets : hist[w].inputs = 0
    /\ \E w \in Widgets : hist[w].rendered > 0

\* C4: retry after a load failure.  A widget whose load has failed (its
\* placeholder says so) and which has since asked for the module again
\* (its promise is set anew) has started a new import.
C4_RetryStartsNewLoad ==
    \A w \in Widgets :
        (sf[w].placeholderOffline /\ sf[w].pagefindSearchPromise # "null")
            => importCount >= 2

\* C5: highlight bounds.  activeIndex is -1 or an index of resultEntries.
C5_ActiveIndexInBounds ==
    \A w \in Widgets :
        \/ sf[w].activeIndex = -1
        \/ (0 <= sf[w].activeIndex
              /\ sf[w].activeIndex < Len(sf[w].resultEntries))

\* C5 witness: the last entry of a list of two is highlighted.
C5_Witness ==
    \E w \in Widgets :
        /\ Len(sf[w].resultEntries) = 2
        /\ sf[w].activeIndex = 1
        /\ ~sf[w].hidden

\* C6: panel-open invariant.  A visible result list holds results or the
\* 'No matches found' placeholder.
C6_OpenPanelHasContent ==
    \A w \in Widgets :
        ~sf[w].hidden =>
            \/ Len(sf[w].resultEntries) > 0
            \/ sf[w].innerHTML = NoMatchesContent

\* C7: clearing resets to Idle.  From the click on the clear control until
\* the next input event the input is empty, the result list is empty, no
\* entry is highlighted and the panel is closed, whatever timer was armed
\* and whatever search was in flight when the control was clicked.
C7_ClearedStaysIdle ==
    \A w \in Widgets :
        hist[w].cleared =>
            /\ sf[w].value = << >>
            /\ sf[w].resultEntries = << >>
            /\ sf[w].activeIndex = -1
            /\ sf[w].hidden

\* The state Escape is to leave widget w in.
ClosedWithFocus(w) ==
    /\ sf[w].hidden
    /\ ~sf[w].ariaExpanded
    /\ sf[w].activeIndex = -1
    /\ focus = InputOf(w)

\* C8: Escape closes the panel.  Once Escape has been handled, in the
\* input, or in the result list while the input holds a value, the panel is
\* hidden, aria-expanded is false, no entry is highlighted and focus is on
\* the input.
C8_EscapeCloses ==
    [][\A w \in Widgets :
          (\/ KeyInInput(w, "Escape")
           \/ (sf[w].value # << >> /\ KeyInResults(w, "Escape")))
              => ClosedWithFocus(w)']_vars

\* C9: cyclic arrow navigation.  With n >= 1 entries and entry i
\* highlighted, ArrowDown highlights entry (i + 1) mod n and ArrowUp entry
\* (i - 1) mod n, in the input and in the result list alike.
C9_ArrowsCycle ==
    [][\A w \in Widgets :
          LET n == Len(sf[w].resultEntries)
              i == sf[w].activeIndex
          IN  (n >= 1 /\ 0 <= i /\ i < n) =>
                /\ (KeyInInput(w, "ArrowDown") \/ KeyInResults(w, "ArrowDown"))
                      => sf'[w].activeIndex = (i + 1) % n
                /\ (KeyInInput(w, "ArrowUp") \/ KeyInResults(w, "ArrowUp"))
                      => sf'[w].activeIndex = (i - 1) % n]_vars

\* C9 witness: the first of two entries is highlighted while the input has
\* focus, so the next arrow key is handled on the input and ArrowUp has to
\* wrap to the last entry.
C9_Witness ==
    \E w \in Widgets :
        /\ Len(sf[w].resultEntries) = 2
        /\ sf[w].activeIndex = 0
        /\ focus = InputOf(w)

(***************************************************************************)
(* Properties of the rendered markup.                                      *)
(***************************************************************************)

MarkupChars == {"&", "<", ">", "\"", "'"}

Entities == {AmpEntity, LtEntity, GtEntity, QuotEntity, AposEntity}

\* The entity that text starts with, or << >> when it starts with none.
EntityAtHead(text) ==
    LET found == {e \in Entities :
                     Len(text) >= Len(e) /\ SubSeq(text, 1, Len(e)) = e}
    IN  IF found = {} THEN << >> ELSE CHOOSE e \in found : TRUE

\* The character an entity stands for.
CharOf(entity) ==
    IF entity = AmpEntity THEN "&"
    ELSE IF entity = LtEntity THEN "<"
    ELSE IF entity = GtEntity THEN ">"
    ELSE IF entity = QuotEntity THEN "\""
    ELSE "'"

\* Text that an HTML parser reads as text only: none of < > " ' and no
\* ampersand but the one that starts an entity.
RECURSIVE IsInertText(_)
IsInertText(text) ==
    IF text = << >> THEN TRUE
    ELSE IF Head(text) = "&"
         THEN /\ EntityAtHead(text) # << >>
              /\ IsInertText(SubSeq(text, Len(EntityAtHead(text)) + 1, Len(text)))
    ELSE Head(text) \notin MarkupChars /\ IsInertText(Tail(text))

\* The text an HTML parser reads from inert text.
RECURSIVE Decoded(_)
Decoded(text) ==
    IF text = << >> THEN << >>
    ELSE IF EntityAtHead(text) # << >>
         THEN <<CharOf(EntityAtHead(text))>>
                  \o Decoded(SubSeq(text, Len(EntityAtHead(text)) + 1, Len(text)))
    ELSE <<Head(text)>> \o Decoded(Tail(text))

\* What renderResults shows as the title of the drawn result.
SourceTitle ==
    IF renderIn.hasTitle THEN renderIn.title ELSE renderIn.url

\* C10 as stated: the title and the excerpt of a rendered result have both
\* been passed through escapeHtml before they are inserted.
C10_TitleAndExcerptEscaped ==
    renderOut # NoRender =>
        /\ renderOut.title = escapeHtml(SourceTitle)
        /\ renderOut.paragraph =
              IF renderIn.excerpt = << >> THEN << >>
              ELSE <<"<", "p", ">">> \o escapeHtml(renderIn.excerpt)
                                     \o <<"<", "/", "p", ">">>

\* C10 amended: the title of a rendered result (its url when it has none)
\* is inserted escaped, as text that holds no markup character and that
\* reads back as the title; the excerpt is inserted as the index gave it,
\* wrapped in a paragraph, without escaping.
C10_TitleEscapedExcerptVerbatim ==
    renderOut # NoRender =>
        /\ IsInertText(renderOut.title)
        /\ Decoded(renderOut.title) = SourceTitle
        /\ renderOut.paragraph =
              IF renderIn.excerpt = << >> THEN << >>
              ELSE <<"<", "p", ">">> \o renderIn.excerpt \o <<"<", "/", "p", ">">>

\* C10 witness: a result whose title and excerpt both hold markup
\* characters has been rendered.
C10_Witness ==
    /\ renderOut # NoRender
    /\ renderIn.hasTitle
    /\ renderIn.title = <<"<", "&">>
    /\ renderIn.excerpt = <<"<", "a">>

(***************************************************************************)
(* Properties of the failure paths of the search widget.                   *)
(***************************************************************************)

\* No rejection is reported as unhandled next.
NoneUnhandled(queue) ==
    \A k \in DOMAIN queue : queue[k].kind # "unhandled"

\* C11: index-load failure degrades gracefully.  When an
\* ensurePagefindSearch call of a widget ends in failure (the import was
\* rejected, or the module has no search function), the placeholder of the
\* input is the offline message, the result list, its markup and the
\* visibility of the panel are as they were, the performSearch call that
\* awaited the load is over without having rendered, and no rejection is
\* left unhandled, be the caller performSearch or the prefetch on focus.
C11_LoadFailureDegrades ==
    [][\A w \in Widgets :
          (/\ microtasks # << >>
           /\ Head(microtasks).kind = "ensure"
           /\ Head(microtasks).w = w
           /\ ~Head(microtasks).ok)
              => /\ sf'[w].placeholderOffline
                 /\ sf'[w].resultEntries = sf[w].resultEntries
                 /\ sf'[w].innerHTML = sf[w].innerHTML
                 /\ sf'[w].hidden = sf[w].hidden
                 /\ hist'[w].rendered = hist[w].rendered
                 /\ \A c \in calls' :
                        ~(c.w = w /\ c.seq = Head(microtasks).caller)
                 /\ NoneUnhandled(microtasks')]_vars

\* C11 witness: a query was dispatched while the panel was open, the load
\* it awaited failed, and the call is over.
C11_Witness ==
    \E w \in Widgets :
        /\ sf[w].placeholderOffline
        /\ ~sf[w].pagefindSearch
        /\ ~sf[w].hidden
        /\ hist[w].searched >= 1
        /\ hist[w].called # << >>
        /\ calls = {}
        /\ microtasks = << >>

\* C12: per-query failure is silent.  When, with the index loaded, the
\* search(query) call or the data() calls of a performSearch call reject,
\* the widget is left as it was and the rejection is absorbed: none is
\* reported as unhandled.
C12_QueryFailureAbsorbed ==
    [][\A c \in calls :
          (SearchSettles(c, FALSE) \/ DataSettles(c, FALSE))
              => /\ sf' = sf
                 /\ NoneUnhandled(microtasks')]_vars

\* C13: offline is terminal.  From the moment the load of a widget has
\* failed (its placeholder is the offline message), the placeholder stays,
\* the widget never holds a search function, none of its performSearch
\* calls gets as far as calling search(query), and nothing is rendered.
C13_OfflineIsTerminal ==
    [][\A w \in Widgets :
          sf[w].placeholderOffline
              => /\ sf'[w].placeholderOffline
                 /\ ~sf'[w].pagefindSearch
                 /\ \A c \in calls' : c.w = w => c.pc = "ensure"
                 /\ hist'[w].rendered = hist[w].rendered]_vars

\* C13 witness: a widget that is offline has dispatched a query, which
\* awaits a promise the widget has built since its load failed.
C13_Witness ==
    \E w \in Widgets :
        /\ sf[w].placeholderOffline
        /\ sf[w].pagefindSearchPromise = "pending"
        /\ microtasks # << >>
        /\ Head(microtasks) = SettleTask(w)
        /\ \E c \in calls : c.w = w /\ c.pc = "ensure"

(***************************************************************************)
(* Properties of the collections.                                          *)
(***************************************************************************)

\* The entries of the build that are not excluded from collections, and
\* those among them that carry tag.
Listed ==
    {buildIn.entries[k] : k \in {i \in DOMAIN buildIn.entries :
        ~(buildIn.entries[i].draft /\ ~buildIn.isDev)}}

ListedWith(tag) ==
    {e \in Listed : \E i \in DOMAIN e.tags : e.tags[i] = tag}

\* The items of the pages, page after page.
RECURSIVE ItemsOfPages(_)
ItemsOfPages(pages) ==
    IF pages = << >> THEN << >>
    ELSE Head(pages).pagination.items \o ItemsOfPages(Tail(pages))

\* pages are the listing pages of the entries in expected, pageSize to a
\* page: as many pages as it takes, all full but possibly the last, which
\* is not empty, numbered from 0, and holding between them every expected
\* entry once, a younger entry before an older one and entries of one date
\* in the order of their input paths.
IsPartition(pages, expected, pageSize) ==
    LET all == ItemsOfPages(pages)
        M == Cardinality(expected)
    IN  /\ Len(pages) * pageSize >= M
        /\ Len(pages) * pageSize < M + pageSize
        /\ \A k \in DOMAIN pages :
              /\ pages[k].pagination.pageNumber = k - 1
              /\ pages[k].pagination.pages = Len(pages)
              /\ Len(pages[k].pagination.items) >= 1
              /\ Len(pages[k].pagination.items) <= pageSize
              /\ k < Len(pages) => Len(pages[k].pagination.items) = pageSize
        /\ Len(all) = M
        /\ {all[i].id : i \in DOMAIN all} = {e.id : e \in expected}
        /\ \A i \in DOMAIN all : \E e \in expected :
              e.id = all[i].id /\ e.date = all[i].date /\ e.tags = all[i].tags
        /\ \A i, j \in DOMAIN all :
              i < j => \/ all[i].date > all[j].date
                       \/ (all[i].date = all[j].date /\ all[i].id < all[j].id)

\* The pages of tagPagination that belong to tag.
PagesTagged(tag) ==
    LET Of(page) == page.tag = tag
    IN  SelectSeq(buildOut.tagPagination, Of)

\* C14: pagination partition.  The pages of newsPagination partition the
\* entries that are not excluded, sorted by descending date with entries
\* of one date in their original order, into ceil(M/N) pages of N items
\* (the last of 1 to N); the pages tagPagination holds for a tag do the
\* same for the entries that carry the tag, and every page of
\* tagPagination belongs to a tag some listed entry carries.
C14_PaginationPartition ==
    buildOut # NotBuilt =>
        /\ IsPartition(buildOut.newsPagination, Listed, buildIn.pageSize)
        /\ \A tag \in Tags :
              IsPartition(PagesTagged(tag), ListedWith(tag), buildIn.pageSize)
        /\ \A k \in DOMAIN buildOut.tagPagination :
              buildOut.tagPagination[k].tag \in Tags

\* C14 witness: three listed entries, two of them of one date and the
\* younger given last, two to a page, with a tag that takes two pages.
C14_Witness ==
    /\ buildOut # NotBuilt
    /\ buildIn.pageSize = 2
    /\ Len(buildOut.newsPagination) = 2
    /\ Len(buildOut.newsPagination[2].pagination.items) = 1
    /\ buildIn.entries[1].date = buildIn.entries[2].date
    /\ buildIn.entries[3].date > buildIn.entries[1].date
    /\ Len(PagesTagged("t")) = 2

\* The URL of the page a listing page of a collection is written to.
PageUrls(pages) ==
    {pages[k].permalink : k \in DOMAIN pages}

\* The public URLs of the build: the home page, the news listing pages,
\* the entries that are published and the tag listing pages.
PublicUrls ==
    {HomeUrl}
        \cup PageUrls(buildOut.newsPagination)
        \cup {EntryUrl(e.id) : e \in {e \in Listed : ~e.draft \/ buildIn.isDev}}
        \cup PageUrls(buildOut.tagPagination)

\* C16: sitemap completeness.  The sitemap holds one record, with a date,
\* for every public URL of the build, and no tag page that tagPagination
\* does not generate.
C16_SitemapComplete ==
    buildOut # NotBuilt =>
        /\ \A url \in PublicUrls :
              /\ Cardinality({k \in DOMAIN buildOut.sitemap :
                                 buildOut.sitemap[k].url = url}) = 1
              /\ \A k \in DOMAIN buildOut.sitemap :
                    buildOut.sitemap[k].url = url
                        => buildOut.sitemap[k].date \in 1..Now
        /\ \A k \in DOMAIN buildOut.sitemap :
              buildOut.sitemap[k].url.kind \in {"tag", "tagPage"}
                  => buildOut.sitemap[k].url \in PageUrls(buildOut.tagPagination)

\* The ids of the items of the pages.
IdsOfPages(pages) ==
    {ItemsOfPages(pages)[i].id : i \in DOMAIN ItemsOfPages(pages)}

\* The entries the sitemap holds a record for.
SitemapEntries ==
    {k \in DOMAIN buildOut.sitemap : buildOut.sitemap[k].priority = 8}

\* C17: draft exclusion.  In a production build no draft is among the items
\* of a news listing page or of a tag listing page, in the news collection
\* or among the entry records of the sitemap, which are those of the other
\* entries; in serve mode every draft is in all of them.
C17_DraftsExcluded ==
    buildOut # NotBuilt =>
        \A k \in DOMAIN buildIn.entries :
            LET e == buildIn.entries[k]
                inNews == \E i \in DOMAIN buildOut.news : buildOut.news[i].id = e.id
                inPages == e.id \in IdsOfPages(buildOut.newsPagination)
                inTagPages == e.id \in IdsOfPages(buildOut.tagPagination)
                inSitemap == \E i \in SitemapEntries :
                                 buildOut.sitemap[i].url = EntryUrl(e.id)
            IN  e.draft =>
                  IF buildIn.isDev
                  THEN inNews /\ inPages /\ inSitemap
                          /\ (e.tags # << >> => inTagPages)
                  ELSE /\ ~inNews /\ ~inPages /\ ~inSitemap /\ ~inTagPages
                       /\ Cardinality(SitemapEntries) = Cardinality(Listed)

\* C17 witness: a production build of a draft that carries tags, next to a
\* published entry.
C17_Witness ==
    /\ buildOut # NotBuilt
    /\ ~buildIn.isDev
    /\ \E i, j \in DOMAIN buildIn.entries :
          /\ buildIn.entries[i].draft
          /\ buildIn.entries[i].tags # << >>
          /\ ~buildIn.entries[j].draft
          /\ buildIn.entries[j].tags = buildIn.entries[i].tags

(***************************************************************************)
(* Properties of the pagination links.                                     *)
(***************************************************************************)

IsPageItem(item, n) ==
    item.type = "page" /\ item.number = n

\* C15: collapsed pagination links.  When there are more pages than the
\* threshold, the items returned hold a page item for page 1 and one for
\* the last page, and no ellipsis is next to another.
C15_CollapsedLinks ==
    (linksOut # << >> /\ linksIn.total > linksIn.maxVisible) =>
        /\ \E i \in DOMAIN linksOut : IsPageItem(linksOut[i], 1)
        /\ \E i \in DOMAIN linksOut : IsPageItem(linksOut[i], linksIn.total)
        /\ \A i \in DOMAIN linksOut :
              (i > 1 /\ linksOut[i].type = "ellipsis")
                  => linksOut[i - 1].type = "page"

\* C15 witness: with the default threshold and ten pages the links of
\* page 5 are collapsed on both sides of it.
C15_Witness ==
    /\ linksIn = [pageNumber |-> 4, total |-> 10,
                  maxVisible |-> DefaultMaxVisible]
    /\ Len(linksOut) = 7
    /\ linksOut[2].type = "ellipsis"
    /\ linksOut[6].type = "ellipsis"

(***************************************************************************)
(* Properties of the authoring scripts.                                    *)
(***************************************************************************)

\* YYYY-MM-DD of a date given as YYYY.MM.DD.
Dashed(dateInput) ==
    [i \in 1..10 |-> IF i \in {5, 8} THEN "-" ELSE dateInput[i]]

\* src/news/YYYY/MM/name of a date given as YYYY.MM.DD.
Destination(dateInput, name) ==
    << SubSeq(dateInput, 1, 4), SubSeq(dateInput, 6, 7), name >>

IsWellFormed(dateInput) ==
    /\ Len(dateInput) = 10
    /\ \A i \in 1..10 :
          IF i \in {5, 8} THEN dateInput[i] = "." ELSE dateInput[i] \in Digits

\* after is before with its date line set to date: the first line of key
\* date reads date, and every other line is as it was.
HasDateSet(after, before, date) ==
    /\ Len(after) = Len(before)
    /\ \E k \in DOMAIN before :
          /\ before[k].key = "date"
          /\ \A i \in 1..(k - 1) : before[i].key # "date"
          /\ after[k] = [key |-> "date", value |-> date]
          /\ \A i \in DOMAIN before : i # k => after[i] = before[i]

\* The directories named slug, anywhere on the disk, whose index.yml
\* contains 'permalink: false'.
DraftsNamed(slug) ==
    {path \in DOMAIN disk :
        /\ disk[path].type = "dir"
        /\ path[Len(path)] = slug
        /\ \E i \in DOMAIN disk[path].yml :
              disk[path].yml[i] = [key |-> "permalink", value |-> <<"false">>]}

C19_NewFailsFast ==
    [][(run'.n = run.n + 1 /\ run'.tool = "new")
          => LET template == << TemplateName >>
                 name == IF run'.slug = << >> THEN <<"s", "l", "u", "g">>
                         ELSE run'.slug
                 fails ==
                     \/ ~IsWellFormed(run'.dateInput)
                     \/ template \notin DOMAIN disk
                     \/ Destination(run'.dateInput, name) \in DOMAIN disk
                     \/ run'.denied
             IN  /\ fails => (run'.exit = 1 /\ disk' = disk)
                 /\ run'.exit = 0
                       => LET target == Destination(run'.dateInput, name)
                          IN  /\ target \notin DOMAIN disk
                              /\ target \in DOMAIN disk'
                              /\ disk'[target].type = "dir"
                              /\ disk'[target].md = disk[template].md
                              /\ HasDateSet(disk'[target].yml, disk[template].yml,
                                            Dashed(run'.dateInput))
                              /\ \A p \in DOMAIN disk : disk'[p] = disk[p]
                 /\ (~fails /\ disk[template].type = "dir")
                       => run'.exit = 0]_vars

\* C19 witness: an entry has been scaffolded in a month that had no
\* directory, next to entries of other months.
C19_Witness ==
    /\ run.tool = "new"
    /\ run.exit = 0
    /\ run.slug = <<"a">>
    /\ Destination(run.dateInput, <<"a">>) \in DOMAIN disk
    /\ run.dateInput[7] = "3"
    /\ \E p \in DOMAIN disk : Len(p) = 3 /\ p[2] = <<"1", "1">>

\* C20: date-format validation.  The scaffolding tool accepts 2025.11.07
\* and rejects 2025-11-07, 25.11.07 and 2025.13.01, each with the
\* invalid-date-format error and exit status 1.
C20_DateFormatValidation ==
    run.tool = "new" =>
        /\ run.dateInput = <<"2", "0", "2", "5", ".", "1", "1", ".", "0", "7">>
              => run.error # "invalid date format"
        /\ run.dateInput \in
                 { <<"2", "0", "2", "5", "-", "1", "1", "-", "0", "7">>,
                   <<"2", "5", ".", "1", "1", ".", "0", "7">>,
                   <<"2", "0", "2", "5", ".", "1", "3", ".", "0", "1">> }
              => (run.exit = 1 /\ run.error = "invalid date format")


(***************************************************************************)
(* Properties of the cross-post message.                                   *)
(***************************************************************************)

\* The number of characters ch among the first k characters of s.
CountBefore(s, k, ch) ==
    Cardinality({j \in 1..k : s[j] = ch})

\* r is s with every character ch taken out and nothing else changed.
IsWithout(r, s, ch) ==
    /\ Len(r) = Len(s) - CountBefore(s, Len(s), ch)
    /\ \A k \in DOMAIN s :
           s[k] # ch => r[k - CountBefore(s, k, ch)] = s[k]

\* The tags, each after a space and a '#'.
RECURSIVE SpacedHashtags(_)
SpacedHashtags(tags) ==
    IF tags = << >> THEN << >>
    ELSE <<" ", "#">> \o Head(tags) \o SpacedHashtags(Tail(tags))

\* 'Example. A test. #web #css' + two line feeds + 'https://example.com'
ExampleMessage ==
    << "E", "x", "a", "m", "p", "l", "e", ".", " ",
       "A", " ", "t", "e", "s", "t", ".", " ",
       "#", "w", "e", "b", " ", "#", "c", "s", "s", LineFeed, LineFeed,
       "h", "t", "t", "p", "s", ":", "/", "/",
       "e", "x", "a", "m", "p", "l", "e", ".", "c", "o", "m" >>

\* C23: message composition.  The message composed is the title, '. ', the
\* body without its backticks, the tags each after a space and a '#', two
\* line feeds and the link; for the post of the example it is the message
\* the specification gives.
C23_MessageComposition ==
    msgOut # NotStarted =>
        LET kept == Len(msgIn.description)
                        - CountBefore(msgIn.description,
                                      Len(msgIn.description), Backtick)
            body == SubSeq(msgOut.message, Len(msgIn.title) + 3,
                           Len(msgIn.title) + 2 + kept)
        IN  /\ IsWithout(body, msgIn.description, Backtick)
            /\ msgOut.message =
                   msgIn.title \o <<".", " ">> \o body
                       \o SpacedHashtags(msgIn.tags)
                       \o <<LineFeed, LineFeed>> \o msgIn.link
            /\ msgIn = PostData(ExampleTitle, ExampleBody, ExampleLink,
                                <<Web, Css>>)
                   => msgOut.message = ExampleMessage

\* C23 witness: the message of the example is composed.
C23_Witness ==
    /\ msgOut # NotStarted
    /\ msgIn = PostData(ExampleTitle, ExampleBody, ExampleLink, <<Web, Css>>)

\* C23 witness of the other case: a body with backticks and no tags.
C23_BackticksComposed ==
    /\ msgOut # NotStarted
    /\ msgIn.tags = << >>
    /\ \E k \in DOMAIN msgIn.description : msgIn.description[k] = Backtick

\* A URL of message m starts at position j: the scheme is there and, when
\* more is asked, a character that is not white space follows it.
UrlStartsAt(m, j, more) ==
    /\ SchemeEnd(m, j) # 0
    /\ more => /\ SchemeEnd(m, j) <= Len(m)
               /\ ~IsWhitespace(m[SchemeEnd(m, j)])

\* The positions of m at which a URL starts.
UrlStarts(m, more) ==
    {j \in DOMAIN m : UrlStartsAt(m, j, more)}

\* Position p of m lies in a run without white space that begins at one of
\* the positions starts.
InUrl(m, starts, p) ==
    \E j \in starts :
        /\ j <= p
        /\ \A k \in j..p : ~IsWhitespace(m[k])

\* The length of m once every maximal run is replaced by
\* MASTODON_URL_LENGTH characters.
LengthWithUrlsAs23(m, more) ==
    LET starts == UrlStarts(m, more)
        runs == {j \in starts : j = 1 \/ ~InUrl(m, starts, j - 1)}
    IN  Len(m) - Cardinality({p \in DOMAIN m : InUrl(m, starts, p)})
            + MASTODON_URL_LENGTH * Cardinality(runs)

\* The counted length of the message of msgIn does not depend on its link.
SameForEveryLink ==
    \A link \in Links :
        calculateMastodonLength(createMessage([msgIn EXCEPT !.link = link]))
            = msgOut.validation.length

\* The validation of the message counts its length as LengthWithUrlsAs23.
CountedAs(more) ==
    msgOut.pc = "validated" =>
        /\ msgOut.validation.length = LengthWithUrlsAs23(msgOut.message, more)
        /\ msgOut.validation.limit = MASTODON_CHAR_LIMIT
        /\ msgOut.validation.valid
               <=> LengthWithUrlsAs23(msgOut.message, more) <= MASTODON_CHAR_LIMIT
        /\ SameForEveryLink

\* C24 as stated: every maximal run without white space that starts with
\* http:// or https:// counts as 23 characters, the scheme alone included.
C24_EverySchemeRunCounts23 ==
    CountedAs(FALSE)

\* C24: budget-counted length.  The counted length is the length of the
\* message once every maximal run without white space that starts with
\* http:// or https:// and one more character is replaced by 23 characters;
\* it is the same for every link; and the message is valid exactly when the
\* count is at most 500.
C24_CountedLength ==
    CountedAs(TRUE)

\* C24 witness: a message longer than 500 characters whose counted length
\* is exactly 500 and that is valid.
C24_Witness ==
    /\ msgOut.pc = "validated"
    /\ Len(msgOut.message) > MASTODON_CHAR_LIMIT
    /\ msgOut.validation.length = MASTODON_CHAR_LIMIT
    /\ msgOut.validation.valid

\* C24 witness of the other side of the limit: one character too many.
C24_OverLimit ==
    /\ msgOut.pc = "validated"
    /\ msgOut.validation.length = MASTODON_CHAR_LIMIT + 1
    /\ ~msgOut.validation.valid

(***************************************************************************)
(* Properties of a run of the cross-post script.                           *)
(***************************************************************************)

Args == {crossIn.args[k] : k \in DOMAIN crossIn.args}

\* The run is given --dry-run, a request for help, the slug of the post.
HasDryRunFlag == crossIn # NotStarted /\ DryRunFlag \in Args
AsksForHelp == Args \cap {HelpFlag, ShortHelpFlag} # {}
NamesPost == Args \cap {PostSlug, NewsPrefix \o PostSlug} # {}

CredentialsMissing == ~(crossIn.token /\ crossIn.host)

\* A message composed in the run counts more than the budget.
OverBudget ==
    \E k \in DOMAIN crossRun.printed :
        LengthWithUrlsAs23(crossRun.printed[k], TRUE) > MASTODON_CHAR_LIMIT

\* client.postTo has not been called.
NeverPosted ==
    crossRun.posted = << >> /\ crossRun.pc # "posting"

\* A hard failure of a run in scope: the credentials are missing or a
\* message composed counts more than the budget.
HardFailure(inScope) ==
    inScope /\ (CredentialsMissing \/ OverBudget)

\* The run has not called client.postTo, and when the process exits it
\* exits with status 1.
EndsWithOneOffline ==
    /\ NeverPosted
    /\ crossRun.pc = "exited" => crossRun.exit = 1

RunToPost ==
    crossIn # NotStarted /\ ~HasDryRunFlag /\ NamesPost /\ ~AsksForHelp

C21_WithoutToken ==
    /\ RunToPost
    /\ ~crossIn.token /\ crossIn.host
    /\ crossIn.yml /\ crossIn.md
    /\ crossRun.pc = "exited"
    /\ crossRun.exit = 1
    /\ crossRun.error = "No Mastodon credentials found"

\* The message of the post of the run.
MessageOfPost ==
    createMessage(PostData(crossIn.title, Trim(crossIn.mdContent),
                           crossIn.link, crossIn.tags))

\* The run has ended, having printed the message of the post.
PrintedWhenEnded ==
    crossRun.pc = "exited" => crossRun.printed = << MessageOfPost >>

\* A dry run makes no client and never calls client.postTo.
DryRunKeepsOffline ==
    /\ crossRun.clients = 0
    /\ NeverPosted

PostLoads ==
    NamesPost /\ crossIn.yml /\ crossIn.md

C22_FlagLast ==
    /\ HasDryRunFlag
    /\ Len(crossIn.args) = 2
    /\ crossIn.args[2] = DryRunFlag
    /\ ~crossIn.token /\ ~crossIn.host
    /\ crossRun.pc = "exited"
    /\ crossRun.printed # << >>

(***************************************************************************)
(* Properties of the follower-tracking script.                             *)
(***************************************************************************)

\* The run of the tracking script has ended: main resolved or rejected.
TrackEnded ==
    trackRun # NotStarted /\ trackRun.pc \in {"done", "rejected"}

\* The fetch of platform p failed: a call it awaits rejected or the answer
\* was not ok, or, for X, the browser did not start.
FetchFailed(p) ==
    \/ trackRun.outcomes[p].kind \in {"rejects", "not ok"}
    \/ p = "x" /\ trackRun.launched = "failed"

\* Nothing but fetches failed: the browser closed, if it was started, and
\* the cache file could be written.
NothingElseFailed ==
    trackIn.writable /\ trackRun.closed # "failed"

\* The cache file after the run holds a record of today in which p is v.
SavedToday(p, v) ==
    /\ trackRun.file.kind = "json"
    /\ Today \in DOMAIN trackRun.file.json
    /\ trackRun.file.json[Today][p] = v

\* The records of the days before today that the file held before the run
\* are in the file after it, unchanged.
HistoryKept ==
    trackIn.file.kind = "json" =>
        \A d \in DOMAIN trackIn.file.json \ {Today} :
            /\ trackRun.file.kind = "json"
            /\ d \in DOMAIN trackRun.file.json
            /\ trackRun.file.json[d] = trackIn.file.json[d]

\* A failed fetch of p leaves null for p in today's saved record, next to
\* the counts of the platforms whose fetch gave one.
FailureTolerated(p) ==
    /\ SavedToday(p, JsNull)
    /\ \A q \in Platforms \ {p} :
           trackRun.outcomes[q].kind = "count" =>
               SavedToday(q, Num(trackRun.outcomes[q].n))

\* C25: follower tracking tolerates failures.  When the run has ended and
\* nothing but fetches failed, every platform whose fetch failed (for X,
\* also by the browser not starting) is null in today's saved record and
\* the counts of the others are saved in it; and the records of the other
\* days are kept.
C25_TrackingToleratesFailures ==
    TrackEnded =>
        /\ HistoryKept
        /\ NothingElseFailed =>
               \A p \in Platforms : FetchFailed(p) => FailureTolerated(p)

\* The part of C25 that leaves out the start of the browser.
C25_FetchFailuresTolerated ==
    (TrackEnded /\ trackRun.launched = "yes") =>
        /\ HistoryKept
        /\ NothingElseFailed =>
               \A p \in Platforms : FetchFailed(p) => FailureTolerated(p)

\* A run in which Mastodon's fetch was not ok and the other two gave
\* counts, over a cache that held a day before today.
C25_OneFetchFailed ==
    /\ TrackEnded
    /\ NothingElseFailed
    /\ trackRun.outcomes["mastodon"].kind = "not ok"
    /\ trackRun.outcomes["bluesky"].kind = "count"
    /\ trackRun.outcomes["x"].kind = "count"
    /\ trackIn.file.kind = "json"
    /\ DOMAIN trackIn.file.json \ {Today} # {}

(***************************************************************************)
(* Properties of the highlighted entry, the closed panel and the           *)
(* listeners of the search widget.                                         *)
(***************************************************************************)

\* The ids of the links in the result list of w.
LinkIds(w) ==
    {sf[w].resultEntries[k] : k \in DOMAIN sf[w].resultEntries}

\* C28: active-descendant consistency.  The input of every widget has the
\* attribute aria-activedescendant exactly while an entry is highlighted,
\* and its value is then the id of the link of resultEntries[activeIndex],
\* a link of the result list.
C28_ActiveDescendantConsistent ==
    \A w \in Widgets :
        /\ sf[w].ariaActivedescendant # 0 <=> sf[w].activeIndex >= 0
        /\ sf[w].ariaActivedescendant # 0 =>
               /\ sf[w].activeIndex + 1 \in DOMAIN sf[w].resultEntries
               /\ sf[w].ariaActivedescendant
                      = sf[w].resultEntries[sf[w].activeIndex + 1]
               /\ sf[w].ariaActivedescendant \in LinkIds(w)

\* The part of C28 that holds: while an entry is highlighted, the attribute
\* names the link of that entry.
C28_HighlightedIsNamed ==
    \A w \in Widgets :
        sf[w].activeIndex >= 0 =>
            /\ sf[w].activeIndex + 1 \in DOMAIN sf[w].resultEntries
            /\ sf[w].ariaActivedescendant
                   = sf[w].resultEntries[sf[w].activeIndex + 1]

\* C26  A closed panel stays closed: once the open panel of a widget has
\* been closed by Escape in the input or by a pointerdown outside of the
\* widget, the panel is hidden and the list of results is empty until the
\* next input or focus event of the input; a search dispatched before the
\* close does not reopen the panel or fill the list when it completes.
C26_ClosedPanelStaysClosed ==
    \A w \in Widgets :
        hist[w].closed =>
            /\ sf[w].hidden
            /\ sf[w].resultEntries = << >>

\* C26  What does hold: a panel that was closed and is hidden is shown
\* again, before the next input or focus event, only by a step that
\* renders the results of a search.
C26_OnlyRenderingReopens ==
    [][\A w \in Widgets :
          /\ hist[w].closed
          /\ sf[w].hidden
          /\ hist'[w].closed
          /\ ~sf'[w].hidden
          => hist'[w].rendered # hist[w].rendered]_vars

\* C26  A search is in flight when the panel has just been closed.
C26_ClosedWithSearchInFlight ==
    \E w \in Widgets :
        /\ hist[w].closed
        /\ sf[w].hidden
        /\ \E c \in calls : c.w = w /\ c.pc = "search"

\* C27  Listener lifecycle: after any sequence of connectedCallback and
\* disconnectedCallback calls on a widget that has an input, each of its
\* listeners is registered exactly when the element is connected, and
\* then once.
C27_ListenersFollowConnection ==
    \A w \in Widgets : \A l \in ListenerNames :
        sf[w].listeners[l] = IF sf[w].isConnected THEN 1 ELSE 0

\* C27  In particular a connected widget reacts to input: an edit of its
\* input arms the debounce timer.
C27_ConnectedReactsToInput ==
    [][\A w \in Widgets :
          /\ sf[w].isConnected
          /\ sf'[w].value # sf[w].value
          => /\ sf'[w].debounceTimer # sf[w].debounceTimer
             /\ \E t \in timers' : t.id = sf'[w].debounceTimer]_vars

\* C27  What does hold: no listener is registered twice, none is
\* registered while the element is disconnected, and the listeners are
\* registered all together or not at all.
C27_RegisteredOnceWhileConnected ==
    \A w \in Widgets : \A l \in ListenerNames :
        /\ sf[w].listeners[l] <= 1
        /\ sf[w].listeners[l] = 1 => sf[w].isConnected
        /\ sf[w].listeners[l] = 1 <=> \A k \in ListenerNames : sf[w].listeners[k] = 1

\* C27  A widget that was disconnected is connected again.
C27_Reconnected ==
    \E w \in Widgets :
        /\ sf[w].isConnected
        /\ sf[w].initialized
        /\ \A l \in ListenerNames : sf[w].listeners[l] = 0

(***************************************************************************)
(* Properties of the pagination items for any threshold.                   *)
(***************************************************************************)

PageItemsAt == {i \in DOMAIN linksOut : linksOut[i].type = "page"}

WellFormedItems ==
    /\ \A i \in PageItemsAt :
          /\ linksOut[i].number \in 1..linksIn.total
          /\ linksOut[i].href = NewsHrefs(linksIn.total)[linksOut[i].number]
    /\ \A i, j \in PageItemsAt :
          i < j => linksOut[i].number < linksOut[j].number
    /\ Cardinality({i \in PageItemsAt : linksOut[i].isCurrent}) = 1
    /\ \A i \in DOMAIN linksOut \ PageItemsAt :
          /\ i - 1 \in PageItemsAt
          /\ i + 1 \in PageItemsAt
          /\ linksOut[i + 1].number - linksOut[i - 1].number > 1

\* C29  Well-formed pagination items for any threshold: for every
\* maxVisible >= 1, every total >= 1 and every current page in 1..total,
\* the page items returned have numbers within 1..total in strictly
\* increasing order, exactly one of them is current, the href of each is
\* the href of its own page, and an ellipsis stands only between two page
\* items whose numbers differ by more than 1.
C29_WellFormedForAnyThreshold ==
    linksOut # << >> => WellFormedItems

\* C29  What does hold: the items are well formed for every threshold of
\* 6 or more, the default of 7 included, and whenever the total does not
\* exceed the threshold.
C29_WellFormedFromSix ==
    /\ linksOut # << >>
    /\ \/ linksIn.maxVisible >= 6
       \/ linksIn.total <= linksIn.maxVisible
    => WellFormedItems

\* C29  The filter was called with the default threshold on a listing
\* of more pages than that.
C29_CollapsedWithDefault ==
    /\ linksOut # << >>
    /\ linksIn.maxVisible = DefaultMaxVisible
    /\ linksIn.total > DefaultMaxVisible
    /\ WellFormedItems

(***************************************************************************)
(* The frame of the move tool.                                             *)
(***************************************************************************)

\* The entries of the disk d that are published: the directories with an
\* index.yml that does not contain 'permalink: false'.
PublishedOn(d) ==
    {path \in DOMAIN d :
        /\ d[path].type = "dir"
        /\ d[path].yml # << >>
        /\ \A i \in DOMAIN d[path].yml :
              d[path].yml[i] # [key |-> "permalink", value |-> <<"false">>]}

\* The index of the first date line of an index.yml (one past its end: there is none).
FirstDateAt(yml) ==
    Least({i \in DOMAIN yml : yml[i].key = "date"} \cup {Len(yml) + 1})

\* The directories above path.
Above(path) == {SubSeq(path, 1, n) : n \in 1..(Len(path) - 1)}

\* C30  Move tool frame: a successful run of the move tool changes only
\* the located draft entry.  Its directory is at the destination and,
\* when that is another path, no longer at the old one; of its index.yml
\* only the first date line is rewritten, the 'permalink: false' line and
\* every other line and file of the entry are as they were; every other
\* path of the disk is as it was, the published entries among them, also
\* those of the same slug in another month; and what is new on the disk
\* besides the destination are the empty directories above it.
C30_MoveFrame ==
    [][(run'.n = run.n + 1 /\ run'.tool = "move" /\ run'.exit = 0)
          => LET destination == Destination(run'.dateInput, run'.slug)
                 located == run'.sourcePath
                 before == disk[located].yml
                 after == disk'[destination].yml
                 k == FirstDateAt(before)
             IN  /\ located \in DraftsNamed(run'.slug)
                 /\ located \notin PublishedOn(disk)
                 /\ destination \in DOMAIN disk'
                 /\ located # destination => located \notin DOMAIN disk'
                 /\ disk'[destination].type = "dir"
                 /\ disk'[destination].md = disk[located].md
                 /\ Len(after) = Len(before)
                 /\ \A i \in DOMAIN before : i # k => after[i] = before[i]
                 /\ \E i \in DOMAIN after :
                       after[i] = [key |-> "permalink", value |-> <<"false">>]
                 /\ \A p \in DOMAIN disk \ {located} :
                       p \in DOMAIN disk' /\ disk'[p] = disk[p]
                 /\ \A p \in PublishedOn(disk) :
                       /\ p \in PublishedOn(disk')
                       /\ disk'[p] = disk[p]
                 /\ \A p \in DOMAIN disk' \ (DOMAIN disk \cup {destination}) :
                       /\ p \in Above(destination)
                       /\ disk'[p] = [type |-> "dir", yml |-> << >>,
                                      md |-> FALSE]]_vars

\* C30 witness: a draft with two dates in its index.yml has been moved to
\* a month that had no directory, next to a published entry of the same
\* slug in another month; the second date is as it was.
C30_Witness ==
    /\ run.tool = "move"
    /\ run.exit = 0
    /\ run.slug = <<"a">>
    /\ run.sourcePath = << <<"2", "0", "2", "5">>, <<"1", "1">>, <<"a">> >>
    /\ run.sourcePath \notin DOMAIN disk
    /\ run.dateInput[7] = "3"
    /\ Destination(run.dateInput, run.slug) \in DOMAIN disk
    /\ Len(disk[Destination(run.dateInput, run.slug)].yml) = 4
    /\ disk[Destination(run.dateInput, run.slug)].yml[2].value
           = Dashed(run.dateInput)
    /\ disk[Destination(run.dateInput, run.slug)].yml[4].value
           = <<"2", "0", "2", "4", "-", "0", "2", "-", "0", "2">>
    /\ << <<"2", "0", "2", "5">>, <<"1", "2">>, <<"a">> >> \in PublishedOn(disk)

\* C30 witness of the move within a month: only the date is rewritten.
C30_SameMonth ==
    /\ run.tool = "move"
    /\ run.exit = 0
    /\ run.sourcePath = Destination(run.dateInput, run.slug)
    /\ run.sourcePath \in DOMAIN disk

=============================================================================
